---- MODULE Spec2Model ----
(***************************************************************************)
(* A model of python-memoization: the caching wrappers of                  *)
(* memoization/caching (FIFO, LRU, LFU, plain), their TTL value toolkit,   *)
(* the per-wrapper lock and the threads that call them.                    *)
(*                                                                         *)
(* The linked lists of the engines are modelled on a heap of node records  *)
(* addressed by integer identifiers; a node nothing refers to any more is  *)
(* collected, as the Python runtime does.                                  *)
(***************************************************************************)
EXTENDS Integers, Sequences, FiniteSets, TLC

VARIABLES
    algorithm,          \* CachingAlgorithmFlag given to @cached
    max_size,           \* max_size given to @cached
    cache,              \* cache: key -> node (FIFO, LRU, LFU) or key -> value (plain)
    key_argument_map,   \* key -> (args, kwargs)
    hits, misses,       \* statistics
    full,               \* FIFO/LRU: whether the cache is full
    root,               \* FIFO/LRU: the list root; LFU: lfu_freq_list_root
    heap,               \* node identifier -> node record
    lock,               \* the wrapper's RLock: its owner, or NoThread
    pc,                 \* per thread: where it is in wrapper()
    args,               \* per thread: the arguments of its call, (args, kwargs)
    key,                \* per thread: key = make_key(args, kwargs)
    cache_expired,      \* per thread: local cache_expired
    got_value,          \* per thread: local value of plain_cache.py's wrapper
    result,             \* per thread: local result
    now,                \* time.time()
    calls,              \* number of wrapper calls started
    call_budget,        \* number of wrapper calls a behaviour may start
    exec_times,         \* number of executions of the user function
    ins_order,          \* history: keys present, oldest insertion first
    hit_order,          \* history: keys present, oldest (insertion or valid hit) first
    touch_order,        \* history: keys present, oldest (insertion or lookup that found the key) first
    traversal,          \* per thread: the traversal of the cache it is in, or None
    last                \* history: what the last step did

vars == <<algorithm, max_size, cache, key_argument_map, hits, misses, full, root,
          heap, lock, pc, args, key, cache_expired, got_value, result, now, calls,
          call_budget, exec_times, ins_order, hit_order, touch_order, traversal, last>>

engine_vars == <<cache, key_argument_map, hits, misses, full, root, heap>>
history_vars == <<ins_order, hit_order, touch_order>>
local_vars == <<pc, args, key, cache_expired, got_value, result>>
config_vars == <<algorithm, max_size, call_budget>>

-----------------------------------------------------------------------------
(* Bounds of the model *)

MaxCalls == 4           \* wrapper calls started in one behaviour
MaxCallsLFU == 5        \* the same, where the LFU engine is studied alone
MaxTime == 3            \* clock ticks in one behaviour
MaxCallsAny == 3        \* wrapper calls in one behaviour, where the user function is arbitrary
MaxCallsBlocked == 2    \* wrapper calls in one behaviour, where a user function never returns

Threads == {1, 2}
NoThread == 0
ArgValues == {1, 2, 3}  \* the values a call is made with: f(1), f(2), f(3)

(* Program constants and inputs *)

FIFO == 1
LRU == 2
LFU == 4
TTL == 2                \* the ttl given to @cached, in clock ticks

None == <<>>            \* Python's None, for keys and values
NoneNode == 0           \* Python's None, for node references
NoneSize == -1          \* Python's None, for max_size
sentinel == <<-1>>      \* sentinel = object(), the default of cache.get
NoneFrequency == 0      \* Python's None, for the frequency of the LFU root

-----------------------------------------------------------------------------
(* Small helpers on sequences and functions *)

Remove(seq, x) == SelectSeq(seq, LAMBDA y: y # x)

MoveToEnd(seq, x) == Append(Remove(seq, x), x)

Without(f, k) == [x \in DOMAIN f \ {k} |-> f[x]]

With(f, k, v) == [x \in DOMAIN f \cup {k} |-> IF x = k THEN v ELSE f[x]]

InSeq(seq, x) == \E i \in 1..Len(seq): seq[i] = x

-----------------------------------------------------------------------------
(* caching/general/keys.py *)

kwargs_mark == -1

RECURSIVE sorted(_)
sorted(S) ==
    IF S = {} THEN <<>>
    ELSE LET m == CHOOSE x \in S: \A y \in S: x <= y
         IN <<m>> \o sorted(S \ {m})

\* kwargs is a dict: the pairs (keyword name, value) in the order the call gave them;
\* the names are integers here
kwargs_keys(kwargs) == {kwargs[i][1]: i \in DOMAIN kwargs}

kwargs_get(kwargs, name) == kwargs[CHOOSE i \in DOMAIN kwargs: kwargs[i][1] = name][2]

RECURSIVE kwargs_items(_, _)
kwargs_items(names, kwargs) ==
    IF names = <<>> THEN <<>>
    ELSE <<Head(names), kwargs_get(kwargs, Head(names))>>
             \o kwargs_items(Tail(names), kwargs)

\* a faulty variant: the keyword arguments are appended in the order of the call
make_key_in_call_order(a, kwargs) ==
    IF kwargs # <<>>
    THEN a \o <<kwargs_mark>>
           \o kwargs_items([i \in DOMAIN kwargs |-> kwargs[i][1]], kwargs)
    ELSE a

make_key(a, kwargs) ==
    IF kwargs # <<>>
    THEN a \o <<kwargs_mark>> \o kwargs_items(sorted(kwargs_keys(kwargs)), kwargs)
    ELSE a

NoKwargs == <<>>

-----------------------------------------------------------------------------
(* caching/general/values_with_ttl.py *)

\* a faulty variant: the deadline of the value is the time it is made at
make_cache_value_expired(res, ttl, time) == <<res, time>>

make_cache_value(res, ttl, time) == <<res, time + ttl>>

\* a faulty variant: the value is still taken as valid at its deadline
is_cache_value_valid_at_deadline(value, time) == time <= value[2]

is_cache_value_valid(value, time) == time < value[2]

\* a faulty variant: the other component of the pair is returned
retrieve_deadline_from_cache_value(value) == value[2]

retrieve_result_from_cache_value(value) == value[1]

-----------------------------------------------------------------------------
(* The user function: f(x) returns x, as the tested functions do *)

user_function(a) == a[1]

-----------------------------------------------------------------------------
(* The heap *)

NodeIds == 1..(3 * 3 + 4)

\* the i-th object allocated from the heap h: the i-th smallest identifier not in use
NewNode(h, i) ==
    CHOOSE n \in NodeIds \ DOMAIN h: Cardinality({m \in NodeIds \ DOMAIN h: m < n}) = i - 1

Pointers(node) ==
    ({node.prev, node.next}
        \cup (IF "cache_head" \in DOMAIN node THEN {node.cache_head} ELSE {})
        \cup (IF "parent" \in DOMAIN node THEN {node.parent} ELSE {}))
    \ {NoneNode}

RECURSIVE Reachable(_, _)
Reachable(h, S) ==
    LET T == S \cup UNION {Pointers(h[n]) : n \in S}
    IN IF T = S THEN S ELSE Reachable(h, T)

\* what the runtime keeps alive: the nodes reachable from the root and from the cache
Collect(h, r, c) ==
    LET live == Reachable(h, {r} \cup {c[k] : k \in DOMAIN c})
    IN [n \in live |-> h[n]]

\* n.field = v
Set(h, n, field, v) == [h EXCEPT ![n][field] = v]

\* n.field = m.g
SetFrom(h, n, field, m, g) == [h EXCEPT ![n][field] = h[m][g]]

\* n.f.field = v
SetVia(h, n, f, field, v) == [h EXCEPT ![h[n][f]][field] = v]

\* n.f.field = m.g
SetViaFrom(h, n, f, field, m, g) == [h EXCEPT ![h[n][f]][field] = h[m][g]]

ListNode(p, n, k, v) == [prev |-> p, next |-> n, key |-> k, value |-> v]

\* the nodes met by following next from the node n up to the node stop, fuel of them at most
RECURSIVE walk_next(_, _, _, _)
walk_next(h, n, stop, fuel) ==
    IF n = stop \/ fuel = 0 \/ n \notin DOMAIN h THEN <<>>
    ELSE <<n>> \o walk_next(h, h[n].next, stop, fuel - 1)

\* the nodes met by following prev from the node n up to the node stop, fuel of them at most
RECURSIVE walk_prev(_, _, _, _)
walk_prev(h, n, stop, fuel) ==
    IF n = stop \/ fuel = 0 \/ n \notin DOMAIN h THEN <<>>
    ELSE <<n>> \o walk_prev(h, h[n].prev, stop, fuel - 1)

-----------------------------------------------------------------------------
(* threading.RLock: the owner and the recursion level *)

FreeLock == [owner |-> NoThread, count |-> 0]

lock_available(l, t) == l.owner \in {NoThread, t}

\* a faulty variant: an acquisition counts twice, so that one release does not free the lock
lock_acquire_twice(l, t) == [owner |-> t, count |-> l.count + 2]

lock_acquire(l, t) == [owner |-> t, count |-> l.count + 1]

\* a faulty variant: the lock is kept
lock_release_kept(l, t) == l

lock_release(l, t) ==
    IF l.count = 1 THEN FreeLock ELSE [owner |-> l.owner, count |-> l.count - 1]

-----------------------------------------------------------------------------
(* The engine state handed to and returned by the operations below:        *)
(* the closure variables cache, key_argument_map, full, root and the heap. *)

Engine == [cache |-> cache, key_argument_map |-> key_argument_map,
           full |-> full, root |-> root, heap |-> heap]

Size(E) == Cardinality(DOMAIN E.cache)

\* a faulty variant: the cache counts as full one entry too late
exceeded_max_size(c, msize) == Cardinality(DOMAIN c) > msize

\* the test "cache.__len__() >= max_size" on the cache map c
\* a faulty variant: the cache never counts as full
reached_max_size_never(c, msize) == FALSE

reached_max_size(c, msize) == Cardinality(DOMAIN c) >= msize

-----------------------------------------------------------------------------
(* caching/fifo_cache.py and caching/lru_cache.py *)

\* a faulty variant: the unlinking leaves node_next.prev as it is
lru_move_to_front_one_way(E, node) ==
    LET node_prev == E.heap[node].prev
        node_next == E.heap[node].next
        h1 == Set(E.heap, node_prev, "next", node_next)
        h3 == SetFrom(h1, node, "prev", E.root, "prev")
        h4 == Set(h3, node, "next", E.root)
        h5 == SetVia(h4, E.root, "prev", "next", node)
        h6 == Set(h5, E.root, "prev", node)
    IN [E EXCEPT !.heap = h6]

\* lru_cache.py wrapper, lines 47-54: move the node to the front of the list
lru_move_to_front(E, node) ==
    LET node_prev == E.heap[node].prev
        node_next == E.heap[node].next
        h1 == Set(E.heap, node_prev, "next", node_next)
        h2 == Set(h1, node_next, "prev", node_prev)
        h3 == SetFrom(h2, node, "prev", E.root, "prev")
        h4 == Set(h3, node, "next", E.root)
        h5 == SetVia(h4, E.root, "prev", "next", node)
        h6 == Set(h5, E.root, "prev", node)
    IN [E EXCEPT !.heap = h6]

\* a faulty variant: the lookup takes the entry out of the cache map (pop for get)
lru_lookup_popping(E, k) ==
    IF k \in DOMAIN E.cache
    THEN [lru_move_to_front(E, E.cache[k]) EXCEPT !.cache = Without(E.cache, k)]
    ELSE E

\* lru_cache.py wrapper, first "with lock" block: the engine after the lookup of k
lru_lookup(E, k) ==
    IF k \in DOMAIN E.cache THEN lru_move_to_front(E, E.cache[k]) ELSE E

\* a faulty variant: the FIFO lookup relinks the node as the LRU lookup does
fifo_lookup_relinking(E, k) == lru_lookup(E, k)

\* fifo_cache.py wrapper, first "with lock" block: the lookup relinks nothing
fifo_lookup(E, k) == E

\* fifo_cache.py wrapper, second "with lock" block
fifo_store(E, k, a, value, expired, msize) ==
    IF k \in DOMAIN E.cache
    THEN IF expired
         THEN [E EXCEPT !.heap = Set(E.heap, E.cache[k], "value", value)]
         ELSE E
    ELSE IF E.full
    THEN LET old_root == E.root
             new_root == E.heap[old_root].next
             old_key == E.heap[new_root].key
             h1 == Set(Set(E.heap, old_root, "key", k), old_root, "value", value)
             h2 == Set(Set(h1, new_root, "key", None), new_root, "value", None)
         IN [E EXCEPT !.root = new_root, !.heap = h2,
                      !.cache = With(Without(E.cache, old_key), k, old_root)]
    ELSE LET last_node == E.heap[E.root].prev
             node == NewNode(E.heap, 1)
             h1 == With(E.heap, node, ListNode(last_node, E.root, k, value))
             h2 == Set(h1, E.root, "prev", node)
             h3 == Set(h2, last_node, "next", node)
             c1 == With(E.cache, k, node)
         IN [E EXCEPT !.heap = h3, !.cache = c1,
                      !.full = reached_max_size(c1, msize)]

\* lru_cache.py wrapper, second "with lock" block
lru_store(E, k, a, value, expired, msize) ==
    IF k \in DOMAIN E.cache
    THEN IF expired
         THEN [E EXCEPT !.heap = Set(E.heap, E.cache[k], "value", value)]
         ELSE E
    ELSE IF E.full
    THEN LET old_root == E.root
             new_root == E.heap[old_root].next
             old_key == E.heap[new_root].key
             h1 == Set(Set(E.heap, old_root, "key", k), old_root, "value", value)
             h2 == Set(Set(h1, new_root, "key", None), new_root, "value", None)
         IN [E EXCEPT !.root = new_root, !.heap = h2,
                      !.cache = With(Without(E.cache, old_key), k, old_root),
                      !.key_argument_map =
                          With(Without(E.key_argument_map, old_key), k, a)]
    ELSE LET last_node == E.heap[E.root].prev
             node == NewNode(E.heap, 1)
             h1 == With(E.heap, node, ListNode(last_node, E.root, k, value))
             h2 == Set(h1, E.root, "prev", node)
             h3 == Set(h2, last_node, "next", node)
             c1 == With(E.cache, k, node)
         IN [E EXCEPT !.heap = h3, !.cache = c1,
                      !.key_argument_map = With(E.key_argument_map, k, a),
                      !.full = reached_max_size(c1, msize)]

\* a faulty variant: cache_clear leaves the flag full as it is
list_clear_keeping_full(E) ==
    [cache |-> [x \in {} |-> NoneNode],
     key_argument_map |-> [x \in {} |-> None],
     full |-> E.full,
     root |-> E.root,
     heap |-> [E.heap EXCEPT ![E.root] = ListNode(E.root, E.root, None, None)]]

\* cache_clear of fifo_cache.py and lru_cache.py
list_clear(E) ==
    [cache |-> [x \in {} |-> NoneNode],
     key_argument_map |-> [x \in {} |-> None],
     full |-> FALSE,
     root |-> E.root,
     heap |-> Set(Set(Set(Set(E.heap, E.root, "prev", E.root),
                          E.root, "next", E.root), E.root, "key", None),
                  E.root, "value", None)]

-----------------------------------------------------------------------------
(* The predicates given to cache_remove_if, after those of test.py *)

Predicates == {"always_false", "argument_is_1", "result_is_2", "is_dead"}

predicate(p, user_function_arguments, user_function_result, is_alive) ==
    CASE p = "always_false" -> FALSE
      [] p = "argument_is_1" -> user_function_arguments[1] = <<1>>
      [] p = "result_is_2" -> user_function_result = 2
      [] p = "is_dead" -> ~is_alive

\* lru_cache.py cache_remove_if, the loop from node on; R is the engine with a field "removed"
RECURSIVE lru_remove_if_from(_, _, _, _, _)
lru_remove_if_from(R, node, p, time, msize) ==
    IF node = R.root THEN R
    ELSE LET is_alive == is_cache_value_valid(R.heap[node].value, time)
             user_function_result == retrieve_result_from_cache_value(R.heap[node].value)
             user_function_arguments == R.key_argument_map[R.heap[node].key]
         IN IF predicate(p, user_function_arguments, user_function_result, is_alive)
            THEN LET node_prev == R.heap[node].prev
                     h1 == Set(R.heap, node_prev, "next", R.heap[node].next)
                     h2 == SetVia(h1, node, "next", "prev", node_prev)
                     k == h2[node].key
                     h3 == Set(Set(h2, node, "key", None), node, "value", None)
                     c1 == Without(R.cache, k)
                 IN lru_remove_if_from(
                        [R EXCEPT !.removed = TRUE, !.heap = h3, !.cache = c1,
                                  !.key_argument_map = Without(R.key_argument_map, k),
                                  !.full = reached_max_size(c1, msize)],
                        node_prev, p, time, msize)
            ELSE lru_remove_if_from(R, R.heap[node].prev, p, time, msize)

\* a faulty variant: removed starts as True
WithRemovedAlready(E, b) ==
    [cache |-> E.cache, key_argument_map |-> E.key_argument_map, full |-> E.full,
     root |-> E.root, heap |-> E.heap, removed |-> TRUE]

WithRemoved(E, b) ==
    [cache |-> E.cache, key_argument_map |-> E.key_argument_map, full |-> E.full,
     root |-> E.root, heap |-> E.heap, removed |-> b]

lru_remove_if(E, p, time, msize) ==
    lru_remove_if_from(WithRemoved(E, FALSE), E.heap[E.root].prev, p, time, msize)

\* The FIFO engine's cache_remove_if: the same walk; the arguments are those of the key
RECURSIVE fifo_remove_if_from(_, _, _, _, _)
fifo_remove_if_from(R, node, p, time, msize) ==
    IF node = R.root THEN R
    ELSE LET is_alive == is_cache_value_valid(R.heap[node].value, time)
             user_function_result == retrieve_result_from_cache_value(R.heap[node].value)
             user_function_arguments == <<R.heap[node].key, NoKwargs>>
         IN IF predicate(p, user_function_arguments, user_function_result, is_alive)
            THEN LET node_prev == R.heap[node].prev
                     h1 == Set(R.heap, node_prev, "next", R.heap[node].next)
                     h2 == SetVia(h1, node, "next", "prev", node_prev)
                     k == h2[node].key
                     h3 == Set(Set(h2, node, "key", None), node, "value", None)
                     c1 == Without(R.cache, k)
                 IN fifo_remove_if_from(
                        [R EXCEPT !.removed = TRUE, !.heap = h3, !.cache = c1,
                                  !.full = reached_max_size(c1, msize)],
                        node_prev, p, time, msize)
            ELSE fifo_remove_if_from(R, R.heap[node].prev, p, time, msize)

fifo_remove_if(E, p, time, msize) ==
    fifo_remove_if_from(WithRemoved(E, FALSE), E.heap[E.root].prev, p, time, msize)

-----------------------------------------------------------------------------
(* caching/lfu_cache.py *)

CacheNode(p, n, par, k, v) == [prev |-> p, next |-> n, parent |-> par, key |-> k, value |-> v]

FreqNode(p, n, f, head) == [prev |-> p, next |-> n, frequency |-> f, cache_head |-> head]

\* _CacheNode.destroy, the test "self.parent.cache_head == self" and its branch
forget_cache_head(h, n) ==
    IF h[h[n].parent].cache_head = n THEN SetVia(h, n, "parent", "cache_head", NoneNode) ELSE h

\* _CacheNode.destroy
cache_node_destroy(h, n) ==
    LET h1 == SetViaFrom(h, n, "prev", "next", n, "next")
        h2 == SetViaFrom(h1, n, "next", "prev", n, "prev")
        h3 == forget_cache_head(h2, n)
    IN [h3 EXCEPT ![n] = CacheNode(NoneNode, NoneNode, NoneNode, None, None)]

\* _FreqNode.destroy
freq_node_destroy(h, n) ==
    LET h1 == SetViaFrom(h, n, "prev", "next", n, "next")
        h2 == SetViaFrom(h1, n, "next", "prev", n, "prev")
    IN [h2 EXCEPT ![n].prev = NoneNode, ![n].next = NoneNode, ![n].cache_head = NoneNode]

\* a faulty variant: a frequency node whose cache list has become empty is kept
destroy_if_empty_never(h, freq_node) == h

\* the test "freq_node.cache_head.next == freq_node.cache_head" and what follows it
destroy_if_empty(h, freq_node) ==
    IF h[h[freq_node].cache_head].next = h[freq_node].cache_head
    THEN freq_node_destroy(cache_node_destroy(h, h[freq_node].cache_head), freq_node)
    ELSE h

\* _access_lfu_cache, for a key that is in the cache
lfu_access(E, k) ==
    LET h == E.heap
        cache_node == E.cache[k]
        freq_node == h[cache_node].parent
        target_frequency == h[freq_node].frequency + 1
    IN IF h[h[freq_node].next].frequency # target_frequency
       THEN LET cache_root == NewNode(h, 1)
                new_freq_node == NewNode(h, 2)
                a1 == With(h, cache_root, CacheNode(cache_root, cache_root, NoneNode, None, None))
                a2 == With(a1, new_freq_node,
                           FreqNode(freq_node, h[freq_node].next, target_frequency, cache_root))
                a3 == Set(a2, cache_root, "parent", new_freq_node)
                a4 == SetViaFrom(a3, cache_node, "prev", "next", cache_node, "next")
                a5 == SetViaFrom(a4, cache_node, "next", "prev", cache_node, "prev")
                a6 == Set(Set(a5, cache_node, "prev", cache_root), cache_node, "next", cache_root)
                a7 == Set(Set(a6, cache_root, "prev", cache_node), cache_root, "next", cache_node)
                a8 == SetVia(a7, new_freq_node, "next", "prev", new_freq_node)
                a9 == SetVia(a8, new_freq_node, "prev", "next", new_freq_node)
                a10 == SetFrom(a9, cache_node, "parent", cache_root, "parent")
            IN [E EXCEPT !.heap = destroy_if_empty(a10, freq_node)]
       ELSE LET next_cache_head == h[h[freq_node].next].cache_head
                b1 == SetViaFrom(h, cache_node, "prev", "next", cache_node, "next")
                b2 == SetViaFrom(b1, cache_node, "next", "prev", cache_node, "prev")
                b3 == SetFrom(b2, cache_node, "next", next_cache_head, "next")
                b4 == Set(b3, cache_node, "prev", next_cache_head)
                b5 == SetVia(b4, next_cache_head, "next", "prev", cache_node)
                b6 == Set(b5, next_cache_head, "next", cache_node)
                b7 == SetFrom(b6, cache_node, "parent", freq_node, "next")
            IN [E EXCEPT !.heap = destroy_if_empty(b7, freq_node)]

\* a faulty variant: the lookup leaves the node under its frequency node
lfu_lookup_without_access(E, k) == E

\* a faulty variant: the lookup accesses the key twice
lfu_lookup_twice(E, k) ==
    IF k \in DOMAIN E.cache THEN lfu_access(lfu_access(E, k), k) ELSE E

\* lfu_cache.py wrapper, first "with lock" block: _access_lfu_cache(cache, key, sentinel)
lfu_lookup(E, k) ==
    IF k \in DOMAIN E.cache THEN lfu_access(E, k) ELSE E

\* a faulty variant: the eviction takes its node from the list of the last frequency node
cache_head_of_last_freq_node(h, r) == h[h[r].prev].cache_head

\* _insert_into_lfu_cache, "Find the target": the cache list an eviction takes its node from
cache_head_of_first_freq_node(h, r) == h[h[r].next].cache_head

\* _insert_into_lfu_cache, the cache is full and the first frequency is not 1
lfu_insert_full_new_freq(E, k, a, value) ==
    LET h == E.heap
        first_freq_node == h[E.root].next
        cache_head == cache_head_of_first_freq_node(h, E.root)
        last_node == h[cache_head].prev
        h1 == SetVia(h, last_node, "prev", "next", cache_head)
        h2 == SetFrom(h1, cache_head, "prev", last_node, "prev")
        old_key == h[last_node].key
        h3 == cache_node_destroy(h2, last_node)
        h4 == destroy_if_empty(h3, first_freq_node)
        empty_cache_root == NewNode(h, 1)
        freq_node == NewNode(h, 2)
        cache_node == NewNode(h, 3)
        h5 == With(h4, empty_cache_root,
                   CacheNode(empty_cache_root, empty_cache_root, NoneNode, None, None))
        h6 == With(h5, freq_node, FreqNode(E.root, NoneNode, 1, empty_cache_root))
        h7 == SetFrom(h6, freq_node, "next", E.root, "next")
        h8 == With(h7, cache_node, CacheNode(empty_cache_root, empty_cache_root, freq_node, k, value))
        h9 == Set(h8, empty_cache_root, "parent", freq_node)
        h10 == Set(SetVia(h9, E.root, "next", "prev", freq_node), E.root, "next", freq_node)
        h11 == Set(Set(h10, empty_cache_root, "prev", cache_node), empty_cache_root, "next", cache_node)
    IN [E EXCEPT !.heap = h11,
                 !.cache = With(Without(E.cache, old_key), k, cache_node),
                 !.key_argument_map = With(Without(E.key_argument_map, old_key), k, a)]

\* _insert_into_lfu_cache, the cache is full and the first frequency is 1
lfu_insert_full_reuse(E, k, a, value) ==
    LET h == E.heap
        cache_head == cache_head_of_first_freq_node(h, E.root)
        manipulated_node == h[cache_head].prev
        h1 == SetVia(h, manipulated_node, "prev", "next", cache_head)
        h2 == SetFrom(h1, cache_head, "prev", manipulated_node, "prev")
        h3 == SetFrom(h2, manipulated_node, "next", cache_head, "next")
        h4 == Set(h3, manipulated_node, "prev", cache_head)
        h5 == SetVia(h4, cache_head, "next", "prev", manipulated_node)
        h6 == Set(h5, cache_head, "next", manipulated_node)
        old_key == h[manipulated_node].key
        h7 == Set(Set(h6, manipulated_node, "key", k), manipulated_node, "value", value)
    IN [E EXCEPT !.heap = h7,
                 !.cache = With(Without(E.cache, old_key), k, manipulated_node),
                 !.key_argument_map = With(Without(E.key_argument_map, old_key), k, a)]

\* _insert_into_lfu_cache, the cache is not full and the first frequency is not 1
lfu_insert_new_freq(E, k, a, value) ==
    LET h == E.heap
        first_freq_node == h[E.root].next
        cache_root == NewNode(h, 1)
        freq_node == NewNode(h, 2)
        cache_node == NewNode(h, 3)
        h1 == With(h, cache_root, CacheNode(cache_root, cache_root, NoneNode, None, None))
        h2 == With(h1, freq_node, FreqNode(E.root, first_freq_node, 1, cache_root))
        h3 == Set(h2, cache_root, "parent", freq_node)
        h4 == With(h3, cache_node, CacheNode(cache_root, cache_root, freq_node, k, value))
        h5 == Set(Set(h4, cache_root, "prev", cache_node), cache_root, "next", cache_node)
        h6 == Set(h5, first_freq_node, "prev", freq_node)
        h7 == Set(h6, E.root, "next", freq_node)
    IN [E EXCEPT !.heap = h7,
                 !.cache = With(E.cache, k, cache_node),
                 !.key_argument_map = With(E.key_argument_map, k, a)]

\* a faulty variant: the new node is linked before the head of the list, not after it
lfu_insert_first_freq_at_tail(E, k, a, value) ==
    LET h == E.heap
        first_freq_node == h[E.root].next
        cache_head == h[first_freq_node].cache_head
        cache_node == NewNode(h, 1)
        h1 == With(h, cache_node, CacheNode(h[cache_head].prev, cache_head, first_freq_node, k, value))
        h2 == SetVia(h1, cache_node, "prev", "next", cache_node)
        h3 == SetVia(h2, cache_node, "next", "prev", cache_node)
    IN [E EXCEPT !.heap = h3,
                 !.cache = With(E.cache, k, cache_node),
                 !.key_argument_map = With(E.key_argument_map, k, a)]

\* _insert_into_lfu_cache, the cache is not full and the first frequency is 1
lfu_insert_first_freq(E, k, a, value) ==
    LET h == E.heap
        first_freq_node == h[E.root].next
        cache_head == h[first_freq_node].cache_head
        cache_node == NewNode(h, 1)
        h1 == With(h, cache_node, CacheNode(cache_head, h[cache_head].next, first_freq_node, k, value))
        h2 == SetVia(h1, cache_node, "prev", "next", cache_node)
        h3 == SetVia(h2, cache_node, "next", "prev", cache_node)
    IN [E EXCEPT !.heap = h3,
                 !.cache = With(E.cache, k, cache_node),
                 !.key_argument_map = With(E.key_argument_map, k, a)]

\* _insert_into_lfu_cache
lfu_insert(E, k, a, value, msize) ==
    LET first_freq_node == E.heap[E.root].next
    IN IF reached_max_size(E.cache, msize)
       THEN IF E.heap[first_freq_node].frequency # 1
            THEN lfu_insert_full_new_freq(E, k, a, value)
            ELSE lfu_insert_full_reuse(E, k, a, value)
       ELSE IF E.heap[first_freq_node].frequency # 1
            THEN lfu_insert_new_freq(E, k, a, value)
            ELSE lfu_insert_first_freq(E, k, a, value)

\* lfu_cache.py wrapper, second "with lock" block
lfu_store(E, k, a, value, expired, msize) ==
    IF k \in DOMAIN E.cache
    THEN IF expired
         THEN [E EXCEPT !.heap = Set(E.heap, E.cache[k], "value", value)]
         ELSE E
    ELSE lfu_insert(E, k, a, value, msize)

\* lfu_cache.py cache_clear
lfu_clear(E) ==
    [cache |-> [x \in {} |-> NoneNode],
     key_argument_map |-> [x \in {} |-> None],
     full |-> E.full,
     root |-> E.root,
     heap |-> Set(Set(E.heap, E.root, "next", E.root), E.root, "prev", E.root)]

\* lfu_cache.py cache_remove_if, the inner loop from cache_node on under freq_node;
\* R has the fields "removed" and "removed_under_this_freq_node"
RECURSIVE lfu_remove_if_inner(_, _, _, _, _)
lfu_remove_if_inner(R, cache_head, cache_node, p, time) ==
    IF cache_node = cache_head THEN R
    ELSE LET is_alive == is_cache_value_valid(R.heap[cache_node].value, time)
             user_function_result == retrieve_result_from_cache_value(R.heap[cache_node].value)
             user_function_arguments == R.key_argument_map[R.heap[cache_node].key]
         IN IF predicate(p, user_function_arguments, user_function_result, is_alive)
            THEN LET next_cache_node == R.heap[cache_node].next
                     k == R.heap[cache_node].key
                 IN lfu_remove_if_inner(
                        [R EXCEPT !.removed = TRUE, !.removed_under_this_freq_node = TRUE,
                                  !.cache = Without(R.cache, k),
                                  !.key_argument_map = Without(R.key_argument_map, k),
                                  !.heap = cache_node_destroy(R.heap, cache_node)],
                        cache_head, next_cache_node, p, time)
            ELSE lfu_remove_if_inner(R, cache_head, R.heap[cache_node].next, p, time)

\* lfu_cache.py cache_remove_if, the outer loop from freq_node on
RECURSIVE lfu_remove_if_from(_, _, _, _)
lfu_remove_if_from(R, freq_node, p, time) ==
    IF freq_node = R.root THEN R
    ELSE LET cache_head == R.heap[freq_node].cache_head
             R1 == lfu_remove_if_inner([R EXCEPT !.removed_under_this_freq_node = FALSE],
                                       cache_head, R.heap[cache_head].next, p, time)
         IN IF R1.removed_under_this_freq_node
               /\ R1.heap[R1.heap[freq_node].cache_head].next = R1.heap[freq_node].cache_head
            THEN LET prev_freq_node == R1.heap[freq_node].prev
                     h1 == cache_node_destroy(R1.heap, R1.heap[freq_node].cache_head)
                     h2 == freq_node_destroy(h1, freq_node)
                 IN lfu_remove_if_from([R1 EXCEPT !.heap = h2], prev_freq_node, p, time)
            ELSE lfu_remove_if_from(R1, R1.heap[freq_node].prev, p, time)

lfu_remove_if(E, p, time, msize) ==
    LET R == lfu_remove_if_from(
                 [cache |-> E.cache, key_argument_map |-> E.key_argument_map, full |-> E.full,
                  root |-> E.root, heap |-> E.heap, removed |-> FALSE,
                  removed_under_this_freq_node |-> FALSE],
                 E.heap[E.root].prev, p, time)
    IN WithRemoved(R, R.removed)

-----------------------------------------------------------------------------
(* config/algorithm_mapping.py get_cache_toolkit: the engine of each flag *)

get_cache_toolkit(alg) ==
    CASE alg = FIFO -> "fifo_cache"
      [] alg = LRU -> "lru_cache"
      [] alg = LFU -> "lfu_cache"

\* memoization.py _create_cached_wrapper: the module whose wrapper is built
create_cached_wrapper(msize, alg) ==
    IF msize = 0 THEN "statistic_cache"
    ELSE IF msize = NoneSize THEN "plain_cache"
    ELSE get_cache_toolkit(alg)

toolkit == create_cached_wrapper(max_size, algorithm)

bounded == toolkit \in {"fifo_cache", "lru_cache", "lfu_cache"}

lookup(alg, E, k) ==
    CASE alg = FIFO -> fifo_lookup(E, k)
      [] alg = LRU -> lru_lookup(E, k)
      [] alg = LFU -> lfu_lookup(E, k)

\* a faulty variant: the FIFO store does not test "key in cache" before it inserts
store_without_recheck(alg, E, k, a, value, expired, msize) ==
    CASE alg = FIFO ->
             fifo_store([E EXCEPT !.cache = Without(E.cache, k)], k, a, value, expired, msize)
      [] alg = LRU -> lru_store(E, k, a, value, expired, msize)
      [] alg = LFU -> lfu_store(E, k, a, value, expired, msize)

\* a faulty variant: the slot a full FIFO or LRU cache recycles for a new key keeps the
\* value of the key it evicts
store_keeping_evicted_value(alg, E, k, a, value, expired, msize) ==
    CASE alg = FIFO ->
             fifo_store(E, k, a,
                        IF k \notin DOMAIN E.cache /\ E.full
                        THEN E.heap[E.heap[E.root].next].value ELSE value, expired, msize)
      [] alg = LRU ->
             lru_store(E, k, a,
                       IF k \notin DOMAIN E.cache /\ E.full
                       THEN E.heap[E.heap[E.root].next].value ELSE value, expired, msize)
      [] alg = LFU -> lfu_store(E, k, a, value, expired, msize)

store(alg, E, k, a, value, expired, msize) ==
    CASE alg = FIFO -> fifo_store(E, k, a, value, expired, msize)
      [] alg = LRU -> lru_store(E, k, a, value, expired, msize)
      [] alg = LFU -> lfu_store(E, k, a, value, expired, msize)

clear(alg, E) ==
    CASE alg = FIFO -> list_clear(E)
      [] alg = LRU -> list_clear(E)
      [] alg = LFU -> lfu_clear(E)

remove_if(alg, E, p, time, msize) ==
    CASE alg = FIFO -> fifo_remove_if(E, p, time, msize)
      [] alg = LRU -> lru_remove_if(E, p, time, msize)
      [] alg = LFU -> lfu_remove_if(E, p, time, msize)

-----------------------------------------------------------------------------
(* The operations that read the cache: lru_cache.py, lfu_cache.py, and *)
(* get_caching_list of fifo_cache.py                                    *)

\* a faulty variant: the loop goes on with freq_node.next
RECURSIVE lfu_traverse_from_by_next(_, _, _, _)
lfu_traverse_from_by_next(h, freq_node, r, fuel) ==
    IF freq_node = r \/ fuel = 0 THEN <<>>
    ELSE walk_next(h, h[h[freq_node].cache_head].next, h[freq_node].cache_head,
                   Cardinality(DOMAIN h))
             \o lfu_traverse_from_by_next(h, h[freq_node].next, r, fuel - 1)

\* lfu_cache.py: the loop "while freq_node != lfu_freq_list_root" from freq_node on, with
\* its inner loop "while cache_node != cache_head": the nodes visited, in order
RECURSIVE lfu_traverse_from(_, _, _, _)
lfu_traverse_from(h, freq_node, r, fuel) ==
    IF freq_node = r \/ fuel = 0 THEN <<>>
    ELSE walk_next(h, h[h[freq_node].cache_head].next, h[freq_node].cache_head,
                   Cardinality(DOMAIN h))
             \o lfu_traverse_from(h, h[freq_node].prev, r, fuel - 1)

\* the nodes a traversal visits, in order: "node = root[_PREV]; while node is not root"
\* in fifo_cache.py and lru_cache.py, the two loops of lfu_cache.py
traverse(alg, E) ==
    IF alg = LFU
    THEN lfu_traverse_from(E.heap, E.heap[E.root].prev, E.root, Cardinality(DOMAIN E.heap))
    ELSE walk_prev(E.heap, E.heap[E.root].prev, E.root, Cardinality(DOMAIN E.heap))

\* cache_for_each(consumer): the calls of consumer, in order; the FIFO engine gives the
\* arguments of the key
cache_for_each(alg, E, time) ==
    [i \in 1..Len(traverse(alg, E)) |->
        <<IF alg = FIFO THEN <<E.heap[traverse(alg, E)[i]].key, NoKwargs>>
          ELSE E.key_argument_map[E.heap[traverse(alg, E)[i]].key],
          retrieve_result_from_cache_value(E.heap[traverse(alg, E)[i]].value),
          is_cache_value_valid(E.heap[traverse(alg, E)[i]].value, time)>>]

\* a faulty variant: alive_only is not looked at
cache_contains_argument_present(E, k, alive_only, time) == k \in DOMAIN E.cache

\* cache_contains_argument(function_arguments, alive_only), from "key = make_key(...)" on
cache_contains_argument(E, k, alive_only, time) ==
    IF k \in DOMAIN E.cache
    THEN IF alive_only THEN is_cache_value_valid(E.heap[E.cache[k]].value, time) ELSE TRUE
    ELSE FALSE

\* cache_contains_result(return_value, alive_only): the loop returns at the first node
\* whose result is return_value
cache_contains_result(alg, E, return_value, alive_only, time) ==
    LET found == SelectSeq(traverse(alg, E),
                           LAMBDA n: retrieve_result_from_cache_value(E.heap[n].value)
                                         = return_value)
    IN IF found = <<>> THEN FALSE
       ELSE IF alive_only THEN is_cache_value_valid(E.heap[Head(found)].value, time)
       ELSE TRUE

\* the clock readings of a traversal of n nodes that starts at the time from: the i-th is
\* the time at which the i-th node is reached
Schedules(n, from) ==
    {times \in [1..n -> from..MaxTime]: \A i \in 1..(n - 1): times[i] <= times[i + 1]}

\* a faulty variant: the generator yields every entry
cache_items_unfiltered(alg, E, times) ==
    [j \in 1..Len(traverse(alg, E)) |->
        <<E.key_argument_map[E.heap[traverse(alg, E)[j]].key],
          retrieve_result_from_cache_value(E.heap[traverse(alg, E)[j]].value)>>]

\* cache_items(): what the generator yields when its i-th node is reached at times[i];
\* cache_arguments() yields the first component of each pair, cache_results() the second
cache_items(alg, E, times) ==
    LET alive == SelectSeq([i \in 1..Len(traverse(alg, E)) |-> i],
                           LAMBDA i: is_cache_value_valid(E.heap[traverse(alg, E)[i]].value,
                                                          times[i]))
    IN [j \in 1..Len(alive) |->
           <<E.key_argument_map[E.heap[traverse(alg, E)[alive[j]]].key],
             retrieve_result_from_cache_value(E.heap[traverse(alg, E)[alive[j]]].value)>>]

-----------------------------------------------------------------------------
(* The state after get_caching_wrapper *)

NoResult == 0

Idle == [t \in Threads |-> "idle"]

\* what a step did, outside the lock
Did(op, k, evicted, ret) ==
    [op |-> op, key |-> k, evicted |-> evicted, ret |-> ret, locked |-> FALSE]

\* what a step did inside a "with lock" block
DidLocked(op, k, evicted, ret) ==
    [op |-> op, key |-> k, evicted |-> evicted, ret |-> ret, locked |-> TRUE]

NoLast == Did("init", None, None, NoResult)

InitWith(algorithms, sizes, budget) ==
    /\ algorithm \in algorithms
    /\ max_size \in sizes
    /\ call_budget = budget
    /\ cache = [x \in {} |-> NoneNode]
    /\ key_argument_map = [x \in {} |-> None]
    /\ hits = 0
    /\ misses = 0
    /\ full = FALSE
    /\ root = IF bounded THEN 1 ELSE NoneNode
    /\ heap = [n \in (IF bounded THEN {1} ELSE {}) |->
                  IF algorithm = LFU
                  THEN FreqNode(1, 1, NoneFrequency, NoneNode)
                  ELSE ListNode(1, 1, None, None)]
    /\ lock = FreeLock
    /\ pc = Idle
    /\ args = [t \in Threads |-> None]
    /\ key = [t \in Threads |-> None]
    /\ cache_expired = [t \in Threads |-> FALSE]
    /\ got_value = [t \in Threads |-> None]
    /\ result = [t \in Threads |-> NoResult]
    /\ now = 0
    /\ calls = 0
    /\ exec_times = 0
    /\ ins_order = <<>>
    /\ hit_order = <<>>
    /\ touch_order = <<>>
    /\ traversal = [t \in Threads |-> None]
    /\ last = NoLast

-----------------------------------------------------------------------------
(* The steps of the program *)

Present(seq, keys) == SelectSeq(seq, LAMBDA x: x \in keys)

SetEngine(E) ==
    /\ cache' = E.cache
    /\ key_argument_map' = E.key_argument_map
    /\ full' = E.full
    /\ root' = E.root
    /\ heap' = Collect(E.heap, E.root, E.cache)

\* wrapper(*args, **kwargs) up to the end of the first "with lock" block
WrapperLookup(t, a, kwargs) ==
    /\ bounded
    /\ pc[t] = "idle"
    /\ calls < call_budget
    /\ lock_available(lock, t)
    /\ \E E1 \in {lookup(algorithm, Engine, make_key(a, kwargs))}:
       LET k == make_key(a, kwargs)
           found == k \in DOMAIN cache
           value == IF found THEN E1.heap[cache[k]].value ELSE None
           valid == found /\ is_cache_value_valid(value, now)
       IN /\ SetEngine(E1)
          /\ IF valid
             THEN /\ hits' = hits + 1
                  /\ misses' = misses
                  /\ UNCHANGED local_vars
                  /\ last' = DidLocked("hit", k, None, retrieve_result_from_cache_value(value))
             ELSE /\ misses' = misses + 1
                  /\ hits' = hits
                  /\ pc' = [pc EXCEPT ![t] = "user_function"]
                  /\ args' = [args EXCEPT ![t] = <<a, kwargs>>]
                  /\ key' = [key EXCEPT ![t] = k]
                  /\ cache_expired' = [cache_expired EXCEPT ![t] = found]
                  /\ UNCHANGED <<got_value, result>>
                  /\ last' = DidLocked("miss", k, None, NoResult)
          /\ hit_order' = IF valid THEN MoveToEnd(hit_order, k) ELSE hit_order
          /\ touch_order' = IF found THEN MoveToEnd(touch_order, k) ELSE touch_order
    /\ lock' = lock_release(lock_acquire(lock, t), t)
    /\ calls' = calls + 1
    /\ UNCHANGED <<traversal, config_vars, now, exec_times, ins_order>>

\* a faulty variant: the wrapper goes on without executing the user function
UserFunctionNotExecuted(t) ==
    /\ pc[t] = "user_function"
    /\ pc' = [pc EXCEPT ![t] = IF toolkit = "statistic_cache" THEN "idle" ELSE "store"]
    /\ last' = Did("user_function", key[t], None, NoResult)
    /\ UNCHANGED <<traversal, config_vars, engine_vars, lock, args, key, cache_expired, got_value,
                   result, now, calls, exec_times, history_vars>>

\* result = user_function(*args, **kwargs), run between the two "with lock" blocks;
\* statistic_cache.py: return user_function(*args, **kwargs)
UserFunction(t) ==
    /\ pc[t] = "user_function"
    /\ exec_times' = exec_times + 1
    /\ IF toolkit = "statistic_cache"
       THEN /\ pc' = [pc EXCEPT ![t] = "idle"]
            /\ args' = [args EXCEPT ![t] = None]
            /\ result' = result
            /\ last' = Did("return", None, None, user_function(args[t][1]))
       ELSE /\ pc' = [pc EXCEPT ![t] = "store"]
            /\ args' = args
            /\ result' = [result EXCEPT ![t] = user_function(args[t][1])]
            /\ last' = Did("user_function", key[t], None, NoResult)
    /\ UNCHANGED <<traversal, config_vars, engine_vars, lock, key, cache_expired, got_value, now,
                   calls, history_vars>>

\* wrapper(*args, **kwargs) from the second "with lock" block to its return
WrapperStore(t) ==
    /\ bounded
    /\ pc[t] = "store"
    /\ lock_available(lock, t)
    /\ \E E1 \in {store(algorithm, Engine, key[t], args[t],
                         make_cache_value(result[t], TTL, now), cache_expired[t], max_size)}:
       LET k == key[t]
           gone == DOMAIN cache \ DOMAIN E1.cache
           op == IF k \in DOMAIN cache
                 THEN IF cache_expired[t] THEN "replace" ELSE "discard"
                 ELSE IF gone # {} THEN "evict" ELSE "insert"
           keys == DOMAIN E1.cache \ {k}
       IN /\ SetEngine(E1)
          /\ last' = DidLocked(op, k, IF gone = {} THEN None ELSE CHOOSE x \in gone: TRUE, result[t])
          /\ ins_order' = IF op \in {"insert", "evict"}
                          THEN Append(Present(ins_order, keys), k) ELSE ins_order
          /\ hit_order' = IF op \in {"insert", "evict", "replace"}
                          THEN Append(Present(hit_order, keys), k) ELSE hit_order
          /\ touch_order' = IF op \in {"insert", "evict"}
                            THEN Append(Present(touch_order, keys), k) ELSE touch_order
    /\ lock' = lock_release(lock_acquire(lock, t), t)
    /\ pc' = [pc EXCEPT ![t] = "idle"]
    /\ args' = [args EXCEPT ![t] = None]
    /\ key' = [key EXCEPT ![t] = None]
    /\ cache_expired' = [cache_expired EXCEPT ![t] = FALSE]
    /\ result' = [result EXCEPT ![t] = NoResult]
    /\ UNCHANGED <<traversal, config_vars, hits, misses, got_value, now, calls, exec_times>>

\* cache_clear()
CacheClear(t) ==
    /\ bounded
    /\ pc[t] = "idle"
    /\ lock_available(lock, t)
    /\ SetEngine(clear(algorithm, Engine))
    /\ hits' = 0
    /\ misses' = 0
    /\ lock' = lock_release(lock_acquire(lock, t), t)
    /\ ins_order' = <<>>
    /\ hit_order' = <<>>
    /\ touch_order' = <<>>
    /\ last' = DidLocked("clear", None, None, NoResult)
    /\ UNCHANGED <<traversal, config_vars, local_vars, now, calls, exec_times>>

\* cache_remove_if(predicate)
CacheRemoveIf(t, p) ==
    /\ bounded
    /\ pc[t] = "idle"
    /\ lock_available(lock, t)
    /\ \E R \in {remove_if(algorithm, Engine, p, now, max_size)}:
          /\ SetEngine(R)
          /\ ins_order' = Present(ins_order, DOMAIN R.cache)
          /\ hit_order' = Present(hit_order, DOMAIN R.cache)
          /\ touch_order' = Present(touch_order, DOMAIN R.cache)
          /\ last' = DidLocked("remove_if", None, None, IF R.removed THEN 1 ELSE 0)
    /\ lock' = lock_release(lock_acquire(lock, t), t)
    /\ UNCHANGED <<traversal, config_vars, hits, misses, local_vars, now, calls, exec_times>>

\* time passes
Tick ==
    /\ now < MaxTime
    /\ now' = now + 1
    /\ last' = Did("tick", None, None, NoResult)
    /\ UNCHANGED <<traversal, config_vars, engine_vars, lock, local_vars, calls, exec_times, history_vars>>

-----------------------------------------------------------------------------
(* caching/plain_cache.py: the steps of its wrapper, which reads and writes *)
(* the cache outside the lock                                               *)

\* key = make_key(args, kwargs); value = cache.get(key, sentinel); the test of line 35
PlainLookup(t, a) ==
    /\ toolkit = "plain_cache"
    /\ pc[t] = "idle"
    /\ calls < call_budget
    /\ LET k == make_key(a, NoKwargs)
           v == IF k \in DOMAIN cache THEN cache[k] ELSE sentinel
       IN /\ args' = [args EXCEPT ![t] = <<a, NoKwargs>>]
          /\ key' = [key EXCEPT ![t] = k]
          /\ got_value' = [got_value EXCEPT ![t] = v]
          /\ pc' = [pc EXCEPT ![t] =
                       IF v # sentinel /\ is_cache_value_valid(v, now)
                       THEN "count_hit" ELSE "count_miss"]
          /\ touch_order' = IF v # sentinel THEN MoveToEnd(touch_order, k) ELSE touch_order
          /\ last' = Did("lookup", k, None, NoResult)
    /\ calls' = calls + 1
    /\ UNCHANGED <<traversal, config_vars, engine_vars, lock, cache_expired, result, now, exec_times,
                   ins_order, hit_order>>

\* with lock: hits += 1; return the result of the value read
PlainHit(t) ==
    /\ pc[t] = "count_hit"
    /\ lock_available(lock, t)
    /\ hits' = hits + 1
    /\ lock' = lock_release(lock_acquire(lock, t), t)
    /\ pc' = [pc EXCEPT ![t] = "idle"]
    /\ args' = [args EXCEPT ![t] = None]
    /\ key' = [key EXCEPT ![t] = None]
    /\ got_value' = [got_value EXCEPT ![t] = None]
    /\ hit_order' = IF InSeq(hit_order, key[t]) THEN MoveToEnd(hit_order, key[t]) ELSE hit_order
    /\ last' = DidLocked("hit", key[t], None, retrieve_result_from_cache_value(got_value[t]))
    /\ UNCHANGED <<traversal, config_vars, cache, key_argument_map, misses, full, root, heap,
                   cache_expired, result, now, calls, exec_times, ins_order, touch_order>>

\* with lock: misses += 1
PlainMiss(t) ==
    /\ pc[t] = "count_miss"
    /\ lock_available(lock, t)
    /\ misses' = misses + 1
    /\ lock' = lock_release(lock_acquire(lock, t), t)
    /\ pc' = [pc EXCEPT ![t] = "user_function"]
    /\ last' = DidLocked("miss", key[t], None, NoResult)
    /\ UNCHANGED <<traversal, config_vars, cache, key_argument_map, hits, full, root, heap, args, key,
                   cache_expired, got_value, result, now, calls, exec_times, history_vars>>

\* cache[key] = values_toolkit.make_cache_value(result, ttl)
PlainStore(t) ==
    /\ toolkit = "plain_cache"
    /\ pc[t] = "store"
    /\ cache' = With(cache, key[t], make_cache_value(result[t], TTL, now))
    /\ pc' = [pc EXCEPT ![t] = "store_arguments"]
    /\ ins_order' = IF key[t] \in DOMAIN cache THEN ins_order ELSE Append(ins_order, key[t])
    /\ hit_order' = MoveToEnd(hit_order, key[t])
    /\ touch_order' = IF key[t] \in DOMAIN cache THEN touch_order ELSE Append(touch_order, key[t])
    /\ last' = Did(IF key[t] \in DOMAIN cache THEN "replace" ELSE "insert", key[t], None, result[t])
    /\ UNCHANGED <<traversal, config_vars, key_argument_map, hits, misses, full, root, heap, lock, args,
                   key, cache_expired, got_value, result, now, calls, exec_times>>

\* key_argument_map[key] = (args, kwargs); return result
PlainArguments(t) ==
    /\ pc[t] = "store_arguments"
    /\ key_argument_map' = With(key_argument_map, key[t], args[t])
    /\ pc' = [pc EXCEPT ![t] = "idle"]
    /\ args' = [args EXCEPT ![t] = None]
    /\ key' = [key EXCEPT ![t] = None]
    /\ got_value' = [got_value EXCEPT ![t] = None]
    /\ result' = [result EXCEPT ![t] = NoResult]
    /\ last' = Did("return", key[t], None, result[t])
    /\ UNCHANGED <<traversal, config_vars, cache, hits, misses, full, root, heap, lock, cache_expired,
                   now, calls, exec_times, history_vars>>

\* plain_cache.py cache_clear()
PlainCacheClear(t) ==
    /\ toolkit = "plain_cache"
    /\ pc[t] = "idle"
    /\ lock_available(lock, t)
    /\ cache' = [x \in {} |-> None]
    /\ key_argument_map' = [x \in {} |-> None]
    /\ hits' = 0
    /\ misses' = 0
    /\ lock' = lock_release(lock_acquire(lock, t), t)
    /\ ins_order' = <<>>
    /\ hit_order' = <<>>
    /\ touch_order' = <<>>
    /\ last' = DidLocked("clear", None, None, NoResult)
    /\ UNCHANGED <<traversal, config_vars, full, root, heap, local_vars, now, calls, exec_times>>

\* plain_cache.py cache_remove_if, the first loop: keys_to_be_removed
keys_to_be_removed(c, kam, p, time) ==
    {k \in DOMAIN c: predicate(p, kam[k], retrieve_result_from_cache_value(c[k]),
                               is_cache_value_valid(c[k], time))}

\* plain_cache.py cache_remove_if(predicate); key_argument_map[key] raises KeyError for
\* a key whose arguments a wrapper call has not stored yet, and nothing is removed then
PlainCacheRemoveIf(t, p) ==
    /\ toolkit = "plain_cache"
    /\ pc[t] = "idle"
    /\ lock_available(lock, t)
    /\ IF DOMAIN cache \subseteq DOMAIN key_argument_map
       THEN \E keys \in {keys_to_be_removed(cache, key_argument_map, p, now)}:
               /\ cache' = [k \in DOMAIN cache \ keys |-> cache[k]]
               /\ key_argument_map' =
                      [k \in DOMAIN key_argument_map \ keys |-> key_argument_map[k]]
               /\ ins_order' = Present(ins_order, DOMAIN cache \ keys)
               /\ hit_order' = Present(hit_order, DOMAIN cache \ keys)
               /\ touch_order' = Present(touch_order, DOMAIN cache \ keys)
               /\ last' = DidLocked("remove_if", None, None, IF keys # {} THEN 1 ELSE 0)
       ELSE /\ UNCHANGED <<cache, key_argument_map, history_vars>>
            /\ last' = DidLocked("key_error", None, None, NoResult)
    /\ lock' = lock_release(lock_acquire(lock, t), t)
    /\ UNCHANGED <<traversal, config_vars, hits, misses, full, root, heap, local_vars, now, calls,
                   exec_times>>

-----------------------------------------------------------------------------
(* caching/statistic_cache.py *)

\* a faulty variant: the call is counted as a hit
StatisticWrapperCountingHits(t, a) ==
    /\ toolkit = "statistic_cache"
    /\ pc[t] = "idle"
    /\ calls < call_budget
    /\ lock_available(lock, t)
    /\ hits' = hits + 1
    /\ lock' = lock_release(lock_acquire(lock, t), t)
    /\ pc' = [pc EXCEPT ![t] = "user_function"]
    /\ args' = [args EXCEPT ![t] = <<a, NoKwargs>>]
    /\ calls' = calls + 1
    /\ last' = DidLocked("miss", None, None, NoResult)
    /\ UNCHANGED <<traversal, config_vars, cache, key_argument_map, misses, full, root, heap, key,
                   cache_expired, got_value, result, now, exec_times, history_vars>>

\* wrapper(*args, **kwargs): with lock: misses += 1
StatisticWrapper(t, a) ==
    /\ toolkit = "statistic_cache"
    /\ pc[t] = "idle"
    /\ calls < call_budget
    /\ lock_available(lock, t)
    /\ misses' = misses + 1
    /\ lock' = lock_release(lock_acquire(lock, t), t)
    /\ pc' = [pc EXCEPT ![t] = "user_function"]
    /\ args' = [args EXCEPT ![t] = <<a, NoKwargs>>]
    /\ calls' = calls + 1
    /\ last' = DidLocked("miss", None, None, NoResult)
    /\ UNCHANGED <<traversal, config_vars, cache, key_argument_map, hits, full, root, heap, key,
                   cache_expired, got_value, result, now, exec_times, history_vars>>

\* a faulty variant: cache_clear leaves misses as it is
StatisticCacheClearKeepingMisses(t) ==
    /\ toolkit = "statistic_cache"
    /\ pc[t] = "idle"
    /\ lock_available(lock, t)
    /\ last' = DidLocked("clear", None, None, NoResult)
    /\ UNCHANGED <<traversal, config_vars, engine_vars, lock, local_vars, now, calls, exec_times,
                   history_vars>>

\* statistic_cache.py cache_clear()
StatisticCacheClear(t) ==
    /\ toolkit = "statistic_cache"
    /\ pc[t] = "idle"
    /\ lock_available(lock, t)
    /\ misses' = 0
    /\ lock' = lock_release(lock_acquire(lock, t), t)
    /\ last' = DidLocked("clear", None, None, NoResult)
    /\ UNCHANGED <<traversal, config_vars, cache, key_argument_map, hits, full, root, heap, local_vars,
                   now, calls, exec_times, history_vars>>

-----------------------------------------------------------------------------
(* The operations that read the cache, as steps *)

\* a faulty variant: the operation counts a hit
CacheQueryCountingHit(t, op, arg, ret, time) ==
    /\ bounded
    /\ pc[t] = "idle"
    /\ lock_available(lock, t)
    /\ lock' = lock_release(lock_acquire(lock, t), t)
    /\ now' = time
    /\ hits' = hits + 1
    /\ last' = DidLocked(op, arg, None, ret)
    /\ UNCHANGED <<traversal, config_vars, cache, key_argument_map, misses, full, root, heap,
                   local_vars, calls, exec_times, history_vars>>

\* an operation that reads the cache in a "with lock" block, called with arg: it returns
\* ret at the time time
CacheQuery(t, op, arg, ret, time) ==
    /\ bounded
    /\ pc[t] = "idle"
    /\ lock_available(lock, t)
    /\ lock' = lock_release(lock_acquire(lock, t), t)
    /\ now' = time
    /\ last' = DidLocked(op, arg, None, ret)
    /\ UNCHANGED <<traversal, config_vars, engine_vars, local_vars, calls, exec_times, history_vars>>

-----------------------------------------------------------------------------
(* cache_for_each, step by step: the consumer may call the wrapper *)

\* where the loops of a traversal stand: before a call of the consumer, at the return,
\* or at an exception
Position(status, freq_node, cache_head, node) ==
    [status |-> status, freq_node |-> freq_node, cache_head |-> cache_head, node |-> node]

\* lru_cache.py cache_for_each: the test "while node is not root"
lru_for_each_at(h, r, node) ==
    Position(IF node = r THEN "return" ELSE "consumer", NoneNode, NoneNode, node)

\* lfu_cache.py cache_for_each: the test "while freq_node != lfu_freq_list_root" with
\* "cache_head = freq_node.cache_head; cache_node = cache_head.next", and the test
\* "while cache_node != cache_head" with "freq_node = freq_node.prev" after the loop.
\* A node that was destroyed has None in its fields: "None.cache_head" raises, and so does
\* the validity test of the value None of a cache_head the inner loop walks into
RECURSIVE lfu_for_each_outer(_, _, _, _)
RECURSIVE lfu_for_each_inner(_, _, _, _, _, _)
lfu_for_each_inner(h, r, freq_node, cache_head, cache_node, fuel) ==
    IF cache_node = cache_head
    THEN lfu_for_each_outer(h, r, h[freq_node].prev, fuel - 1)
    ELSE Position(IF cache_node = NoneNode \/ h[cache_node].key = None
                  THEN "exception" ELSE "consumer",
                  freq_node, cache_head, cache_node)

lfu_for_each_outer(h, r, freq_node, fuel) ==
    IF freq_node = r THEN Position("return", NoneNode, NoneNode, NoneNode)
    ELSE IF fuel <= 0 \/ freq_node = NoneNode \/ h[freq_node].cache_head = NoneNode
    THEN Position("exception", freq_node, NoneNode, NoneNode)
    ELSE lfu_for_each_inner(h, r, freq_node, h[freq_node].cache_head,
                            h[h[freq_node].cache_head].next, fuel)

\* the first position of cache_for_each
for_each_first(alg, E) ==
    IF alg = LFU
    THEN lfu_for_each_outer(E.heap, E.root, E.heap[E.root].prev, Cardinality(DOMAIN E.heap))
    ELSE lru_for_each_at(E.heap, E.root, E.heap[E.root].prev)

\* the position after the call of the consumer at the position p: "node = node[_PREV]",
\* "cache_node = cache_node.next"
for_each_next(alg, E, p) ==
    IF alg = LFU
    THEN lfu_for_each_inner(E.heap, E.root, p.freq_node, p.cache_head, E.heap[p.node].next,
                            Cardinality(DOMAIN E.heap))
    ELSE lru_for_each_at(E.heap, E.root, E.heap[p.node].prev)

\* the heap h after a collection that gave the heap collected, with the nodes ids, which
\* local variables of a traversal refer to, kept
Keep(h, collected, ids) == [n \in DOMAIN collected \cup (ids \cap DOMAIN h) |-> h[n]]

\* cache_for_each(consumer): "with lock:" and the first test of the loops
ForEachStart(t) ==
    /\ toolkit \in {"lru_cache", "lfu_cache"}
    /\ pc[t] = "idle"
    /\ lock_available(lock, t)
    /\ lock' = lock_acquire(lock, t)
    /\ pc' = [pc EXCEPT ![t] = "cache_for_each"]
    /\ traversal' = [traversal EXCEPT ![t] =
                         [position |-> for_each_first(algorithm, Engine), entries |-> <<>>]]
    /\ last' = DidLocked("cache_for_each_start", None, None, NoResult)
    /\ UNCHANGED <<config_vars, engine_vars, args, key, cache_expired, got_value, result,
                   now, calls, exec_times, history_vars>>

\* the body of the loop: the consumer is called with the entry of the node; it calls the
\* wrapper with the arguments of the key k, which is in the cache and has not expired (a
\* hit: the lock is reentrant), or calls nothing (k is None); then the loop steps on
ForEachConsumer(t, k) ==
    /\ pc[t] = "cache_for_each"
    /\ traversal[t].position.status = "consumer"
    /\ k # None =>
           /\ k \in DOMAIN cache
           /\ is_cache_value_valid(heap[cache[k]].value, now)
           /\ calls < call_budget
    /\ \E E1 \in {IF k = None THEN Engine ELSE lookup(algorithm, Engine, k)}:
           \E p \in {for_each_next(algorithm, E1, traversal[t].position)}:
               /\ heap' = Keep(E1.heap, Collect(E1.heap, E1.root, E1.cache),
                               {p.freq_node, p.cache_head, p.node})
               /\ traversal' = [traversal EXCEPT ![t] =
                     [position |-> p,
                      entries |-> Append(traversal[t].entries,
                          <<key_argument_map[heap[traversal[t].position.node].key],
                            retrieve_result_from_cache_value(
                                heap[traversal[t].position.node].value),
                            is_cache_value_valid(heap[traversal[t].position.node].value,
                                                 now)>>)]]
    /\ hits' = IF k = None THEN hits ELSE hits + 1
    /\ calls' = IF k = None THEN calls ELSE calls + 1
    /\ hit_order' = IF k = None THEN hit_order ELSE MoveToEnd(hit_order, k)
    /\ touch_order' = IF k = None THEN touch_order ELSE MoveToEnd(touch_order, k)
    /\ last' = DidLocked("consumer", heap[traversal[t].position.node].key, None, k)
    /\ UNCHANGED <<config_vars, cache, key_argument_map, misses, full, root, lock,
                   local_vars, now, exec_times, ins_order>>

\* the end of cache_for_each: the loops are over, or an exception leaves the "with lock"
\* block; ret is the sequence of the entries the consumer was called with
ForEachReturn(t) ==
    /\ pc[t] = "cache_for_each"
    /\ traversal[t].position.status \in {"return", "exception"}
    /\ lock' = lock_release(lock, t)
    /\ pc' = [pc EXCEPT ![t] = "idle"]
    /\ traversal' = [traversal EXCEPT ![t] = None]
    /\ heap' = Collect(heap, root, cache)
    /\ last' = DidLocked(IF traversal[t].position.status = "return"
                         THEN "cache_for_each_return" ELSE "cache_for_each_exception",
                         None, None, traversal[t].entries)
    /\ UNCHANGED <<config_vars, cache, key_argument_map, hits, misses, full, root, args,
                   key, cache_expired, got_value, result, now, calls, exec_times,
                   history_vars>>

-----------------------------------------------------------------------------
(* cache_arguments, cache_results, cache_items: the generators, step by step *)

Generators == {"cache_arguments", "cache_results", "cache_items"}

\* the nodes the loop of a generator has yet to reach after the node n, all the nodes of
\* the traversal when n is NoneNode; while the generator is suspended it holds the lock,
\* and no other thread relinks a node
remaining(alg, E, n) ==
    IF n = NoneNode THEN traverse(alg, E)
    ELSE SubSeq(traverse(alg, E),
                (CHOOSE i \in 1..Len(traverse(alg, E)): traverse(alg, E)[i] = n) + 1,
                Len(traverse(alg, E)))

\* of these nodes, the ones the test "if is_cache_value_valid(...)" lets through
remaining_alive(alg, E, n, time) ==
    SelectSeq(remaining(alg, E, n), LAMBDA m: is_cache_value_valid(E.heap[m].value, time))

\* the value the generator op yields at the node n
yielded(op, E, n) ==
    CASE op = "cache_arguments" -> E.key_argument_map[E.heap[n].key]
      [] op = "cache_results" -> retrieve_result_from_cache_value(E.heap[n].value)
      [] OTHER -> <<E.key_argument_map[E.heap[n].key],
                    retrieve_result_from_cache_value(E.heap[n].value)>>

\* next() on the generator op: the first call enters "with lock:", every call runs the
\* loop up to the next yield, where the generator is suspended inside the "with lock"
\* block, or to the end of the loop, where it leaves the block
GeneratorNext(t, op) ==
    /\ toolkit \in {"lru_cache", "lfu_cache"}
    /\ \/ pc[t] = "idle" /\ lock_available(lock, t)
       \/ pc[t] = op
    /\ \E rest \in {remaining_alive(algorithm, Engine,
                                     IF pc[t] = "idle" THEN NoneNode
                                     ELSE traversal[t].position.node, now)}:
           IF rest # <<>>
           THEN /\ pc' = [pc EXCEPT ![t] = op]
                /\ lock' = IF pc[t] = "idle" THEN lock_acquire(lock, t) ELSE lock
                /\ traversal' = [traversal EXCEPT ![t] =
                       [position |-> Position("yield", NoneNode, NoneNode, Head(rest)),
                        entries |-> (IF pc[t] = "idle" THEN <<>> ELSE traversal[t].entries)
                                        \o <<yielded(op, Engine, Head(rest))>>]]
                /\ last' = DidLocked("yield", heap[Head(rest)].key, None,
                                     yielded(op, Engine, Head(rest)))
           ELSE /\ pc' = [pc EXCEPT ![t] = "idle"]
                /\ lock' = IF pc[t] = "idle" THEN lock_release(lock_acquire(lock, t), t)
                                             ELSE lock_release(lock, t)
                /\ traversal' = [traversal EXCEPT ![t] = None]
                /\ last' = DidLocked("stop_iteration", None, None,
                                     IF pc[t] = "idle" THEN <<>> ELSE traversal[t].entries)
    /\ UNCHANGED <<config_vars, engine_vars, args, key, cache_expired, got_value, result,
                   now, calls, exec_times, history_vars>>

\* the suspended generator is closed or dropped: GeneratorExit leaves the "with lock" block
GeneratorClose(t) ==
    /\ pc[t] \in Generators
    /\ lock' = lock_release(lock, t)
    /\ pc' = [pc EXCEPT ![t] = "idle"]
    /\ traversal' = [traversal EXCEPT ![t] = None]
    /\ last' = DidLocked("close", None, None, traversal[t].entries)
    /\ UNCHANGED <<config_vars, engine_vars, args, key, cache_expired, got_value, result,
                   now, calls, exec_times, history_vars>>

-----------------------------------------------------------------------------
(* User functions that are not pure, and user functions that raise *)

\* the results an execution of an arbitrary user function may give for the arguments a:
\* what the pure function gives, or something else
ResultValues(a) == {user_function(a), user_function(a) + 10}

\* result = user_function(*args, **kwargs), the execution giving the result r;
\* statistic_cache.py: return user_function(*args, **kwargs)
UserFunctionReturns(t, r) ==
    /\ pc[t] = "user_function"
    /\ exec_times' = exec_times + 1
    /\ IF toolkit = "statistic_cache"
       THEN /\ pc' = [pc EXCEPT ![t] = "idle"]
            /\ args' = [args EXCEPT ![t] = None]
            /\ result' = result
            /\ last' = Did("return", None, None, r)
       ELSE /\ pc' = [pc EXCEPT ![t] = "store"]
            /\ args' = args
            /\ result' = [result EXCEPT ![t] = r]
            /\ last' = Did("user_function", key[t], None, NoResult)
    /\ UNCHANGED <<traversal, config_vars, engine_vars, lock, key, cache_expired, got_value, now,
                   calls, history_vars>>

\* a faulty variant: the wrapper catches the exception and goes on to store a value
UserFunctionRaisesAndStores(t) ==
    /\ pc[t] = "user_function"
    /\ exec_times' = exec_times + 1
    /\ pc' = [pc EXCEPT ![t] = IF toolkit = "statistic_cache" THEN "idle" ELSE "store"]
    /\ result' = [result EXCEPT ![t] = NoResult]
    /\ last' = Did("exception", key[t], None, NoResult)
    /\ UNCHANGED <<traversal, config_vars, engine_vars, lock, args, key, cache_expired, got_value,
                   now, calls, history_vars>>

\* user_function(*args, **kwargs) raises: the exception leaves wrapper() from the line of
\* the call, which no "with lock" block and no try statement encloses
UserFunctionRaises(t) ==
    /\ pc[t] = "user_function"
    /\ exec_times' = exec_times + 1
    /\ pc' = [pc EXCEPT ![t] = "idle"]
    /\ args' = [args EXCEPT ![t] = None]
    /\ key' = [key EXCEPT ![t] = None]
    /\ cache_expired' = [cache_expired EXCEPT ![t] = FALSE]
    /\ got_value' = [got_value EXCEPT ![t] = None]
    /\ last' = Did("exception", key[t], None, NoResult)
    /\ UNCHANGED <<traversal, config_vars, engine_vars, lock, result, now, calls, history_vars>>

-----------------------------------------------------------------------------
(* The next-state relations and the specifications *)

Lookup == \E t \in Threads: \E x \in ArgValues: WrapperLookup(t, <<x>>, NoKwargs)
Compute == \E t \in Threads: UserFunction(t)
Store == \E t \in Threads: WrapperStore(t)
Clear == \E t \in Threads: CacheClear(t)
RemoveIf == \E t \in Threads: \E p \in Predicates: CacheRemoveIf(t, p)

\* the operations of statistic_cache.py that read the cache
StatisticReads ==
    {"cache_is_empty", "cache_is_full", "cache_contains_argument", "cache_contains_result",
     "cache_for_each", "cache_arguments", "cache_results", "cache_items", "cache_remove_if"}

\* a faulty variant: every operation answers False, or visits nothing
statistic_cache_read_all_false(op) ==
    IF op \in {"cache_for_each", "cache_arguments", "cache_results", "cache_items"}
    THEN <<>> ELSE FALSE

\* statistic_cache.py cache_is_empty .. cache_remove_if: what the operation returns; for
\* cache_for_each the calls of the consumer, for a generator the values it yields
statistic_cache_read(op) ==
    CASE op \in {"cache_is_empty", "cache_is_full"} -> TRUE
      [] op \in {"cache_contains_argument", "cache_contains_result", "cache_remove_if"} ->
             FALSE
      [] OTHER -> <<>>

\* one of these operations, called by thread t; none of them takes the lock
StatisticCacheRead(t, op) ==
    /\ toolkit = "statistic_cache"
    /\ pc[t] = "idle"
    /\ last' = Did(op, None, None, statistic_cache_read(op))
    /\ UNCHANGED <<traversal, config_vars, engine_vars, lock, local_vars, now, calls, exec_times,
                   history_vars>>

LookupPlain == \E t \in Threads: \E x \in ArgValues: PlainLookup(t, <<x>>)
HitPlain == \E t \in Threads: PlainHit(t)
MissPlain == \E t \in Threads: PlainMiss(t)
StorePlain == \E t \in Threads: PlainStore(t)
ArgumentsPlain == \E t \in Threads: PlainArguments(t)
ClearPlain == \E t \in Threads: PlainCacheClear(t)
RemoveIfPlain == \E t \in Threads: \E p \in Predicates: PlainCacheRemoveIf(t, p)

CallStatistic == \E t \in Threads: \E x \in ArgValues: StatisticWrapper(t, <<x>>)
ClearStatistic == \E t \in Threads: StatisticCacheClear(t)

\* the bounded engines
NextBounded == Lookup \/ Compute \/ Store \/ Clear \/ RemoveIf \/ Tick

\* the plain engine
NextPlain == LookupPlain \/ HitPlain \/ MissPlain \/ Compute \/ StorePlain
                \/ ArgumentsPlain \/ ClearPlain \/ RemoveIfPlain \/ Tick

\* the engine that only counts
NextStatistic == CallStatistic \/ Compute \/ ClearStatistic \/ Tick

\* every engine
Next == Lookup \/ Store \/ Clear \/ RemoveIf \/ LookupPlain \/ HitPlain \/ MissPlain
            \/ StorePlain \/ ArgumentsPlain \/ ClearPlain \/ RemoveIfPlain
            \/ CallStatistic \/ ClearStatistic
            \/ Compute \/ Tick

Sizes == {1, 2}         \* the values of max_size of the bounded engines

InitBounded == InitWith({FIFO, LRU, LFU}, Sizes, MaxCalls)
SpecBounded == InitBounded /\ [][NextBounded]_vars

InitPlain == InitWith({LRU}, {NoneSize}, MaxCalls)
SpecPlain == InitPlain /\ [][NextPlain]_vars

InitStatistic == InitWith({LRU}, {0}, MaxCalls)
SpecStatistic == InitStatistic /\ [][NextStatistic]_vars

\* the engine that only counts, and the operations that read it
ReadStatistic == \E t \in Threads: \E op \in StatisticReads: StatisticCacheRead(t, op)
NextStatisticReads == CallStatistic \/ Compute \/ ClearStatistic \/ Tick \/ ReadStatistic
SpecStatisticReads == InitStatistic /\ [][NextStatisticReads]_vars

Init == InitBounded \/ InitPlain \/ InitStatistic
Spec == Init /\ [][Next]_vars

InitFIFO == InitWith({FIFO}, {2}, MaxCalls)
SpecFIFO == InitFIFO /\ [][NextBounded]_vars

InitLRU == InitWith({LRU}, {2}, MaxCalls)
SpecLRU == InitLRU /\ [][NextBounded]_vars

InitLFU == InitWith({LFU}, {2}, MaxCallsLFU)
SpecLFU == InitLFU /\ [][NextBounded]_vars

\* test.py run_must_hit: the threads call a bounded wrapper with the keys range(max_size)
\* only; the wrapper has no ttl, so that nothing expires: the clock stands still
LookupMustHit == \E t \in Threads: \E x \in 1..max_size: WrapperLookup(t, <<x>>, NoKwargs)

NextMustHit == LookupMustHit \/ Compute \/ Store

InitMustHit == InitWith({FIFO, LRU, LFU}, {2, 3}, MaxCallsLFU)
SpecMustHit == InitMustHit /\ [][NextMustHit]_vars

\* every engine, where the user function of one thread may never return: the scheduler
\* lets every other thread that can make a step of its call make it
BlockedThread == CHOOSE t \in Threads: TRUE

CallProgress(t) ==
    UserFunction(t) \/ WrapperStore(t) \/ PlainHit(t) \/ PlainMiss(t) \/ PlainStore(t)
        \/ PlainArguments(t)

InitBlocked ==
    \/ InitWith({FIFO, LRU, LFU}, {1}, MaxCallsBlocked)
    \/ InitWith({LRU}, {NoneSize, 0}, MaxCallsBlocked)
SpecBlocked ==
    /\ InitBlocked
    /\ [][Next]_vars
    /\ \A t \in Threads \ {BlockedThread}: WF_vars(CallProgress(t))

\* every engine, called with an arbitrary user function
Return ==
    \E t \in Threads:
        pc[t] = "user_function" /\ \E r \in ResultValues(args[t][1]): UserFunctionReturns(t, r)
Raise == \E t \in Threads: UserFunctionRaises(t)

NextAnyFunction == Lookup \/ Store \/ LookupPlain \/ HitPlain \/ MissPlain \/ StorePlain
                       \/ ArgumentsPlain \/ CallStatistic \/ Return \/ Raise \/ Tick

InitAnyFunction ==
    \/ InitWith({FIFO, LRU, LFU}, {1}, MaxCallsAny)
    \/ InitWith({LRU}, {NoneSize, 0}, MaxCallsAny)
SpecAnyFunction == InitAnyFunction /\ [][NextAnyFunction]_vars

\* test.py calls the wrapper and reads the cache from one thread
MainThread == CHOOSE t \in Threads: TRUE

\* test.py test_memoization_for_different_order_of_kwargs: one thread calls a wrapper
\* that has no ttl with the same positional argument and with keyword arguments in any
\* order; a call gives every keyword name once
KwargNames == {1, 2}
KwargValues == {1, 2}
KwargsCalls ==
    {<<>>} \cup {<<p>>: p \in KwargNames \X KwargValues}
           \cup {<<p, q>>: <<p, q>> \in {pq \in (KwargNames \X KwargValues)
                                                    \X (KwargNames \X KwargValues):
                                             pq[1][1] # pq[2][1]}}

LookupKwargs == \E kwargs \in KwargsCalls: WrapperLookup(MainThread, <<1>>, kwargs)

NextKwargs == LookupKwargs \/ UserFunction(MainThread) \/ WrapperStore(MainThread)

InitKwargs == InitWith({FIFO, LRU, LFU}, {2}, MaxCallsAny)
SpecKwargs == InitKwargs /\ [][NextKwargs]_vars

\* the results of a user function that gives the same result for several arguments
ReturnValues == {1, 2}

ForEach ==
    CacheQuery(MainThread, "cache_for_each", None, cache_for_each(algorithm, Engine, now), now)

ContainsArgument ==
    /\ algorithm # FIFO
    /\ \E x \in ArgValues: \E alive_only \in BOOLEAN:
           CacheQuery(MainThread, "cache_contains_argument",
                      <<make_key(<<x>>, NoKwargs), alive_only>>,
                      cache_contains_argument(Engine, make_key(<<x>>, NoKwargs), alive_only, now),
                      now)

ContainsResult ==
    /\ algorithm # FIFO
    /\ \E return_value \in ReturnValues: \E alive_only \in BOOLEAN:
           CacheQuery(MainThread, "cache_contains_result", <<return_value, alive_only>>,
                      cache_contains_result(algorithm, Engine, return_value, alive_only, now),
                      now)

\* a whole iteration over cache_items(): the lock is held from the first next() to the
\* end of the generator, while the clock goes on
Items ==
    /\ algorithm # FIFO
    /\ \E times \in Schedules(Len(traverse(algorithm, Engine)), now):
           CacheQuery(MainThread, "cache_items", times, cache_items(algorithm, Engine, times),
                      IF DOMAIN times = {} THEN now ELSE times[Len(traverse(algorithm, Engine))])

\* one thread, a user function that is neither injective nor total, every operation
NextQueries ==
    \/ \E x \in ArgValues: WrapperLookup(MainThread, <<x>>, NoKwargs)
    \/ \E r \in ReturnValues: UserFunctionReturns(MainThread, r)
    \/ UserFunctionRaises(MainThread)
    \/ WrapperStore(MainThread)
    \/ CacheClear(MainThread)
    \/ \E p \in Predicates: CacheRemoveIf(MainThread, p)
    \/ Tick
    \/ ForEach
    \/ ContainsArgument
    \/ ContainsResult
    \/ Items

InitQueries == InitWith({FIFO, LRU, LFU}, {2}, MaxCallsAny)
SpecQueries == InitQueries /\ [][NextQueries]_vars

\* the threads call an LRU or LFU wrapper and iterate over its cache with the generators
NextGenerators ==
    \/ \E t \in Threads: \E x \in ArgValues: WrapperLookup(t, <<x>>, NoKwargs)
    \/ \E t \in Threads: UserFunction(t)
    \/ \E t \in Threads: WrapperStore(t)
    \/ Tick
    \/ \E t \in Threads: \E op \in Generators: GeneratorNext(t, op)
    \/ \E t \in Threads: GeneratorClose(t)

InitGenerators == InitWith({LRU, LFU}, {2}, MaxCallsAny)
SpecGenerators == InitGenerators /\ [][NextGenerators]_vars

\* one thread calls an LRU or LFU wrapper and traverses its cache with cache_for_each,
\* whose consumer may call the wrapper
NextReentrant ==
    \/ \E x \in ArgValues: WrapperLookup(MainThread, <<x>>, NoKwargs)
    \/ UserFunction(MainThread)
    \/ WrapperStore(MainThread)
    \/ ForEachStart(MainThread)
    \/ \E k \in {None} \cup DOMAIN cache: ForEachConsumer(MainThread, k)
    \/ ForEachReturn(MainThread)

InitReentrant == InitWith({LRU, LFU}, {2, 3}, MaxCalls)
SpecReentrant == InitReentrant /\ [][NextReentrant]_vars

\* test.py _lfu_test and _cache_for_each_test: one thread calls an LFU wrapper and
\* traverses its cache
NextForEachLFU ==
    \/ \E x \in ArgValues: WrapperLookup(MainThread, <<x>>, NoKwargs)
    \/ UserFunction(MainThread)
    \/ WrapperStore(MainThread)
    \/ \E p \in Predicates: CacheRemoveIf(MainThread, p)
    \/ Tick
    \/ ForEach

InitForEachLFU == InitWith({LFU}, {2}, MaxCalls)
SpecForEachLFU == InitForEachLFU /\ [][NextForEachLFU]_vars

-----------------------------------------------------------------------------
(* What the properties speak of *)

\* cache_info().current_size: cache.__len__()
current_size == Cardinality(DOMAIN cache)

\* the cache value stored for the key k, in this state and in the next one
stored(k) == IF bounded THEN heap[cache[k]].value ELSE cache[k]

stored_next(k) == IF bounded THEN heap'[cache'[k]].value ELSE cache'[k]

\* LFU: the frequency of the frequency node the key k is under
frequency(k) == heap[heap[cache[k]].parent].frequency

frequency_next(k) == heap'[heap'[cache'[k]].parent].frequency

\* LFU: the keys of the lowest frequency present
LowestFrequency == {k \in DOMAIN cache: \A j \in DOMAIN cache: frequency(k) <= frequency(j)}

\* a step that starts a wrapper call
CallStarts == calls' = calls + 1

\* cache_is_empty()
cache_is_empty == toolkit = "statistic_cache" \/ Cardinality(DOMAIN cache) = 0

\* cache_is_full()
cache_is_full ==
    CASE toolkit = "statistic_cache" -> TRUE
      [] toolkit = "plain_cache" -> FALSE
      [] toolkit = "lfu_cache" -> reached_max_size(cache, max_size)
      [] OTHER -> full

\* cache_is_empty() and cache_is_full() of a bounded engine, called by thread t: they
\* read without the lock
CacheRead(t, op, ret) ==
    /\ bounded
    /\ pc[t] = "idle"
    /\ last' = Did(op, None, None, ret)
    /\ UNCHANGED <<traversal, config_vars, engine_vars, lock, local_vars, now, calls, exec_times,
                   history_vars>>

Info == CacheQuery(MainThread, "cache_info", None, <<hits, misses, current_size>>, now)
IsEmpty == CacheRead(MainThread, "cache_is_empty", cache_is_empty)
IsFull == CacheRead(MainThread, "cache_is_full", cache_is_full)

\* one thread, every operation, the operations that read the cache included
NextReads == NextQueries \/ Info \/ IsEmpty \/ IsFull
SpecReads == InitQueries /\ [][NextReads]_vars

\* the number of threads that are executing the user function
computing == Cardinality({t \in Threads: pc[t] = "user_function"})

\* plain_cache.py: the number of calls that have looked their key up and are not counted yet
uncounted == Cardinality({t \in Threads: pc[t] \in {"count_hit", "count_miss"}})

\* the number of calls the step counts, as a hit or as a miss
counted_next ==
    IF toolkit = "plain_cache"
    THEN Cardinality({t \in Threads: pc[t] \in {"count_hit", "count_miss"} /\ pc'[t] # pc[t]})
    ELSE IF CallStarts THEN 1 ELSE 0

\* the nodes of the circular list of the root r, other than r, in the order of next
ring(r) ==
    IF r \in DOMAIN heap THEN walk_next(heap, heap[r].next, r, Cardinality(DOMAIN heap))
    ELSE <<>>

\* the roots of the circular lists: the root of the engine and, in LFU, the cache_head
\* of every frequency node
roots ==
    IF toolkit = "lfu_cache"
    THEN {root} \cup {heap[ring(root)[i]].cache_head : i \in 1..Len(ring(root))}
    ELSE {root}

\* the data nodes reachable from the root: FIFO and LRU keep them in the list of the
\* root, LFU in the lists under the frequency nodes
data_nodes ==
    UNION {{ring(r)[i] : i \in 1..Len(ring(r))} :
              r \in IF toolkit = "lfu_cache" THEN roots \ {root} ELSE {root}}

\* LFU: the keys of the cache list of the cache_head head, from head.next on
bucket_keys(head) == [j \in 1..Len(ring(head)) |-> heap[ring(head)[j]].key]

\* LFU: the frequency list from root.next on, each frequency node as its frequency and the
\* keys of its cache list
buckets ==
    [i \in 1..Len(ring(root)) |->
        <<heap[ring(root)[i]].frequency, bucket_keys(heap[ring(root)[i]].cache_head)>>]

\* the keys of the nodes a traversal of the engine E visits, in order
traversed_keys(E) ==
    [i \in 1..Len(traverse(algorithm, E)) |-> E.heap[traverse(algorithm, E)[i]].key]

\* what cache_remove_if and cache_for_each hand to their argument for the key k
consumed(k) ==
    <<IF algorithm = FIFO THEN <<k, NoKwargs>> ELSE key_argument_map[k],
      retrieve_result_from_cache_value(stored(k)),
      is_cache_value_valid(stored(k), now)>>

\* the keys of the entries a traversal has handed over, in order
keys_of(entries) ==
    [i \in 1..Len(entries) |-> make_key(entries[i][1][1], entries[i][1][2])]

\* the sequence seq from its last element to its first
reversed(seq) == [i \in 1..Len(seq) |-> seq[Len(seq) + 1 - i]]

\* no call is in flight: every thread has returned from the wrapper
quiescent == \A t \in Threads: pc[t] = "idle"

-----------------------------------------------------------------------------
(* Properties *)

C1_Step ==
    /\ (bounded /\ CallStarts) =>
           LET k == last'.key
           IN IF k \in DOMAIN cache
              THEN now < stored(k)[2] =>
                       /\ hits' = hits + 1
                       /\ misses' = misses
                       /\ exec_times' = exec_times
                       /\ pc' = pc
                       /\ last'.op = "hit"
                       /\ last'.ret = stored(k)[1]
                       /\ last'.ret = user_function(k)
              ELSE /\ misses' = misses + 1
                   /\ hits' = hits
                   /\ \E t \in Threads:
                          pc[t] = "idle" /\ pc'[t] = "user_function" /\ key'[t] = k
    /\ (toolkit = "plain_cache" /\ CallStarts) =>
           LET k == last'.key
           IN \E t \in Threads:
                  /\ pc[t] = "idle"
                  /\ key'[t] = k
                  /\ IF k \in DOMAIN cache
                     THEN now < cache[k][2] =>
                              /\ pc'[t] = "count_hit"
                              /\ got_value'[t] = cache[k]
                              /\ cache[k][1] = user_function(k)
                     ELSE pc'[t] = "count_miss"
    /\ \A t \in Threads:
           /\ (pc[t] = "count_hit" /\ pc'[t] # "count_hit") =>
                  /\ hits' = hits + 1
                  /\ misses' = misses
                  /\ exec_times' = exec_times
                  /\ pc'[t] = "idle"
                  /\ last'.ret = got_value[t][1]
           /\ (pc[t] = "count_miss" /\ pc'[t] # "count_miss") =>
                  /\ misses' = misses + 1
                  /\ hits' = hits
                  /\ pc'[t] = "user_function"
           /\ (toolkit # "statistic_cache" /\ pc[t] = "user_function"
                   /\ pc'[t] # "user_function") =>
                  /\ exec_times' = exec_times + 1
                  /\ result'[t] = user_function(args[t][1])

\* C1: a call for a key that is not in the cache is counted as a miss and goes on to
\* execute the function; a call for a key that is in the cache and within its TTL
\* window returns the stored result, which is the function's result for these
\* arguments, without executing the function, and adds one to hits and nothing to misses.
C1_RepeatedCallHits == [][C1_Step]_vars

\* two hits after one execution of the function
C1_Witness ==
    /\ toolkit # "statistic_cache"
    /\ last.op = "hit"
    /\ hits = 2
    /\ misses = 1
    /\ exec_times = 1

\* C2: in the bounded engines the number of entries of the cache map never exceeds
\* max_size, whatever the interleaving of wrapper calls, cache_remove_if and cache_clear.
C2_SizeWithinMaxSize == bounded => current_size <= max_size

\* a store has just evicted a key from a cache holding max_size entries
C2_Witness == bounded /\ last.op = "evict" /\ current_size = max_size

\* C3: in the LRU engine the key evicted by the insertion of a new key into a full
\* cache is the one whose last access (its insertion, the replacement of its value or
\* its latest hit) is the oldest, and every other key stays.
C3_EvictsLeastRecentlyUsed ==
    [][(algorithm = LRU /\ last'.op = "evict") =>
           /\ last'.evicted = Head(hit_order)
           /\ DOMAIN cache' = (DOMAIN cache \ {Head(hit_order)}) \cup {last'.key}]_vars

C4_Step ==
    algorithm = FIFO =>
        /\ last'.op = "evict" =>
               /\ last'.evicted = Head(ins_order)
               /\ DOMAIN cache' = (DOMAIN cache \ {Head(ins_order)}) \cup {last'.key}
        /\ CallStarts => (heap' = heap /\ root' = root /\ cache' = cache)
        /\ DOMAIN cache # {} => heap[heap[root].next].key = Head(ins_order)

\* C4: in the FIFO engine the key evicted by the insertion of a new key into a full
\* cache is the one inserted earliest among the keys present; a lookup, hit or not,
\* relinks nothing, so the key to evict next stays the earliest inserted one.
C4_EvictsEarliestInserted == [][C4_Step]_vars

\* an eviction after a hit
C4_Witness == algorithm = FIFO /\ last.op = "evict" /\ hits >= 1 /\ max_size = 2

C5_Step ==
    (algorithm = LFU /\ last'.op = "evict") =>
        LET e == last'.evicted
        IN /\ e \in DOMAIN cache
           /\ DOMAIN cache' = (DOMAIN cache \ {e}) \cup {last'.key}
           /\ \A k \in DOMAIN cache \ {e}: frequency(k) >= frequency(e)

\* C5: in the LFU engine the key evicted by the insertion of a new key into a full
\* cache is under the lowest frequency: no key that stays had a smaller frequency.
C5_EvictsLowestFrequency == [][C5_Step]_vars

\* an eviction that left a key of a higher frequency in the cache
C5_Witness ==
    /\ algorithm = LFU
    /\ last.op = "evict"
    /\ \E k \in DOMAIN cache \ {last.key}: frequency(k) >= 2

\* C6, as stated: when an LFU eviction chooses among several keys of the lowest
\* frequency, the key evicted is the one of them inserted into the cache least recently.
C6_EvictsLeastRecentlyInserted ==
    [][(algorithm = LFU /\ last'.op = "evict" /\ Cardinality(LowestFrequency) >= 2) =>
           last'.evicted = Head(Present(ins_order, LowestFrequency))]_vars

\* C6, amended: when an LFU eviction chooses among several keys of the lowest
\* frequency, the key evicted is the one of them that came under its frequency least
\* recently: the one whose insertion or latest lookup that found it is the oldest.
C6_EvictsLeastRecentlyPlaced ==
    [][(algorithm = LFU /\ last'.op = "evict" /\ Cardinality(LowestFrequency) >= 2) =>
           last'.evicted = Head(Present(touch_order, LowestFrequency))]_vars

\* an eviction after two insertions and a hit on each of the two keys: the key evicted
\* and the key that stays had the same frequency
C6_Witness ==
    /\ algorithm = LFU
    /\ last.op = "evict"
    /\ calls = 5
    /\ hits = 2
    /\ misses = 3
    /\ exec_times = 3
    /\ \E k \in DOMAIN cache \ {last.key}: frequency(k) = 2

C7_Step ==
    /\ (toolkit # "statistic_cache" /\ last'.op \in {"insert", "evict", "replace"}) =>
           stored_next(last'.key) = <<last'.ret, now + TTL>>
    /\ (bounded /\ CallStarts /\ last'.key \in DOMAIN cache) =>
           /\ (last'.op = "hit") <=> (now < stored(last'.key)[2])
           /\ (last'.op # "hit") =>
                  /\ misses' = misses + 1
                  /\ \E t \in Threads:
                         /\ pc[t] = "idle"
                         /\ pc'[t] = "user_function"
                         /\ key'[t] = last'.key
                         /\ cache_expired'[t]
    /\ (toolkit = "plain_cache" /\ CallStarts /\ last'.key \in DOMAIN cache) =>
           \E t \in Threads:
               /\ pc[t] = "idle"
               /\ key'[t] = last'.key
               /\ (pc'[t] = "count_hit") <=> (now < cache[last'.key][2])
               /\ (pc'[t] = "count_miss") <=> (now >= cache[last'.key][2])
    /\ \A t \in Threads:
           /\ (bounded /\ pc[t] = "store" /\ pc'[t] # "store" /\ cache_expired[t]
                   /\ key[t] \in DOMAIN cache) =>
                  /\ last'.op = "replace"
                  /\ stored_next(key[t]) = <<result[t], now + TTL>>
                  /\ now' < stored_next(key[t])[2]
           /\ (toolkit = "plain_cache" /\ pc[t] = "store" /\ pc'[t] # "store") =>
                  /\ stored_next(key[t]) = <<result[t], now + TTL>>
                  /\ now' < stored_next(key[t])[2]

\* C7: a value stored at time t carries the deadline t + TTL; a call for a key in the
\* cache is a hit exactly when now is before the deadline of the stored value; a call
\* at or after the deadline is counted as a miss and re-runs the function, and its
\* store replaces the value by one with the deadline now + TTL, alive again.
C7_ValidUntilDeadline == [][C7_Step]_vars

\* the expired value of a key has just been replaced, after a hit and two misses
C7_Witness ==
    /\ bounded
    /\ last.op = "replace"
    /\ hits = 1
    /\ misses = 2
    /\ now >= TTL
    /\ now < stored(last.key)[2]

C8_Step ==
    /\ now' # now => (cache' = cache /\ heap' = heap /\ key_argument_map' = key_argument_map)
    /\ (DOMAIN cache \ DOMAIN cache' # {}) => last'.op \in {"evict", "remove_if", "clear"}
    /\ CallStarts => DOMAIN cache' = DOMAIN cache
    /\ last'.op = "replace" => DOMAIN cache' = DOMAIN cache
    /\ (bounded /\ last'.op = "insert") => current_size < max_size
    /\ (bounded /\ last'.op = "evict") => (current_size = max_size /\ current_size' = max_size)

\* C8: the passage of time changes nothing of the cache; a key leaves the cache map
\* only by an eviction, by cache_remove_if or by cache_clear, never by a lookup, so an
\* expired entry stays and counts towards max_size (a new key is inserted without an
\* eviction only below max_size); the replacement of a value keeps the set of keys.
C8_ExpiredEntryStays == [][C8_Step]_vars

\* time has just passed over a cache that is full and holds an expired entry
C8_Witness ==
    /\ bounded
    /\ last.op = "tick"
    /\ current_size = max_size
    /\ \E k \in DOMAIN cache: now >= stored(k)[2]

C9_Step ==
    \A t \in Threads:
        /\ (pc[t] # "user_function" /\ pc'[t] = "user_function") =>
               (misses' = misses + 1 /\ lock'.owner # t)
        /\ (pc[t] = "user_function" /\ pc'[t] # "user_function") =>
               (lock' = lock /\ exec_times' = exec_times + 1)

\* C9: in every engine a thread that is executing the user function does not own the
\* lock: the step that counts the miss releases it, and the execution of the function
\* neither takes nor releases it.
C9_FunctionRunsUnlocked ==
    /\ [](\A t \in Threads: pc[t] = "user_function" => lock.owner # t)
    /\ [][C9_Step]_vars

\* two threads are executing the user function at the same time
C9_Witness == \A t \in Threads: pc[t] = "user_function"

\* C10: a call that missed and, when it comes to store its result, finds its key in the
\* cache with a value that is not expired, stores nothing and leaves that value as it is.
C10_FreshValueIsKept ==
    [][\A t \in Threads:
           (toolkit # "statistic_cache" /\ pc[t] = "store" /\ pc'[t] # "store"
                /\ key[t] \in DOMAIN cache /\ now < stored(key[t])[2]) =>
               stored_next(key[t]) = stored(key[t])]_vars

\* C11: a call that missed a key that was not in the cache and, when it comes to store
\* its result, finds the key in the cache, stores nothing and returns the result held by
\* the value that is in the cache.
C11_SecondReturnsCachedValue ==
    [][\A t \in Threads:
           (bounded /\ pc[t] = "store" /\ pc'[t] # "store" /\ key[t] \in DOMAIN cache
                /\ ~cache_expired[t]) =>
               /\ cache' = cache
               /\ heap' = heap
               /\ last'.op = "discard"
               /\ last'.ret = retrieve_result_from_cache_value(stored(key[t]))]_vars

\* C12: in the storing engines every step that looks the key of a call up in the cache
\* map, changes hits or misses, or inserts, overwrites or deletes a cache entry is made
\* inside a "with lock" block of the acting thread.
C12_EveryAccessUnderLock ==
    [][(toolkit # "statistic_cache"
            /\ (CallStarts \/ hits' # hits \/ misses' # misses \/ cache' # cache
                    \/ heap' # heap \/ key_argument_map' # key_argument_map)) =>
           last'.locked]_vars

C13_Step ==
    /\ DOMAIN cache \subseteq DOMAIN cache'
    /\ last'.op = "hit" => last'.key \in DOMAIN cache'
    /\ \A t \in Threads: (pc[t] # "idle" /\ pc'[t] = "idle") => key[t] \in DOMAIN cache'

\* C13: threads call a bounded wrapper of capacity max_size with max_size distinct keys,
\* from the empty cache. The key of every call that has returned is in the cache map and
\* no key ever leaves it, so that once all calls have returned and every key has been
\* called, all the keys are in the map and current_size = max_size; then, as always,
\* misses >= current_size and hits <= (calls made) - current_size.
C13_AllKeysStored ==
    /\ [][C13_Step]_vars
    /\ [](/\ DOMAIN cache \subseteq {<<x>> : x \in 1..max_size}
          /\ misses >= current_size
          /\ hits <= calls - current_size
          /\ (quiescent /\ current_size = max_size) =>
                 /\ DOMAIN cache = {<<x>> : x \in 1..max_size}
                 /\ misses >= max_size
                 /\ hits <= calls - max_size)

\* all the calls of the budget have returned, the two keys are in the map, and every
\* call but the first one for each key was a hit
C13_Witness ==
    /\ quiescent
    /\ calls = call_budget
    /\ max_size = 2
    /\ current_size = 2
    /\ misses = 2
    /\ hits = calls - 2

C15_OnlyTheCallerIsBlocked ==
    /\ \A u \in Threads \ {BlockedThread}: (pc[u] # "idle") ~> (pc[u] = "idle")
    /\ [](\A u \in Threads \ {BlockedThread}:
              (pc[BlockedThread] = "user_function" /\ pc[u] = "idle") =>
                  /\ lock_available(lock, u)
                  /\ ENABLED (CacheClear(u) \/ PlainCacheClear(u) \/ StatisticCacheClear(u))
                  /\ toolkit # "statistic_cache" =>
                         ENABLED (\E p \in Predicates:
                                     CacheRemoveIf(u, p) \/ PlainCacheRemoveIf(u, p)))

\* the other thread has missed, executed the function and stored its result while the
\* first thread was executing the function
C15_Witness ==
    /\ pc[BlockedThread] = "user_function"
    /\ \A u \in Threads \ {BlockedThread}: pc[u] = "idle"
    /\ last.op \in {"insert", "evict", "return"}
    /\ misses = 2
    /\ exec_times = 1

\* C16: the user function is executed once for each call counted as a miss and never for
\* a call counted as a hit. As long as no cache_clear has reset counters that had counted
\* a call (hits + misses still count every call made), misses is the number of executions
\* made plus the number of executions under way; once every call has returned, the number
\* of executions is misses.
C16_OneExecutionPerMiss ==
    /\ [](hits + misses + uncounted = calls =>
              /\ misses = exec_times + computing
              /\ quiescent => exec_times = misses)
    /\ [][hits' = hits + 1 =>
              /\ exec_times' = exec_times
              /\ \A t \in Threads: pc'[t] = "user_function" => pc[t] = "user_function"]_vars

\* all the calls of the budget have returned: one hit, and one execution for each miss
C16_Witness ==
    /\ quiescent
    /\ calls = call_budget
    /\ hits = 1
    /\ misses = calls - 1
    /\ exec_times = misses

\* C17, as stated: whenever no call is in flight, hits + misses is the number of wrapper
\* calls made, all of which have completed.
C17_CountersCountAllCalls == quiescent => hits + misses = calls

C17_Step ==
    IF last'.op = "clear"
    THEN hits' = 0 /\ misses' = 0
    ELSE hits' + misses' = hits + misses + counted_next

\* C17, amended: every wrapper call is counted exactly once, as a hit or as a miss, before
\* it returns, and cache_clear resets both counters to zero: hits + misses is the number of
\* calls counted since the last cache_clear, never more than the number of calls made.
C17_CountersCountCallsSinceClear ==
    /\ [][C17_Step]_vars
    /\ [](hits + misses + uncounted <= calls)

\* no call is in flight, and the counters count a call made after a cache_clear that
\* had reset them
C17_Witness ==
    /\ quiescent
    /\ last.op \in {"insert", "hit", "return"}
    /\ hits + misses >= 1
    /\ hits + misses < calls

\* C18: right after cache_clear(), whether or not calls are in flight, current_size, hits
\* and misses are 0, cache_is_empty() is true, cache_is_full() is false unless the capacity
\* is 0 and, in the bounded engines, the root of the list is the only node left and points
\* to itself in both directions.
C18_ClearEmptiesEverything ==
    last.op = "clear" =>
        /\ current_size = 0
        /\ hits = 0
        /\ misses = 0
        /\ cache_is_empty
        /\ toolkit # "statistic_cache" => ~cache_is_full
        /\ bounded => (heap[root].next = root /\ heap[root].prev = root
                           /\ DOMAIN heap = {root})

\* cache_clear() has just returned, with no call in flight, after two calls that stored
C18_Witness ==
    /\ last.op = "clear"
    /\ bounded
    /\ quiescent
    /\ exec_times >= 2
    /\ now = 0

\* C19: when the user function raises, the exception leaves the wrapper at once: the call
\* ends without a result, the map, the list, current_size, hits and misses are as they were
\* before the exception, and the call had been counted as exactly one miss, and as no hit,
\* when it went on to execute the user function.
C19_ExceptionLeavesCacheAlone ==
    [][/\ \A t \in Threads:
              (pc[t] # "user_function" /\ pc'[t] = "user_function") =>
                  (misses' = misses + 1 /\ hits' = hits)
       /\ last'.op = "exception" =>
              /\ cache' = cache /\ key_argument_map' = key_argument_map
              /\ heap' = heap /\ root' = root /\ full' = full
              /\ hits' = hits /\ misses' = misses
              /\ result' = result
              /\ \E t \in Threads:
                     /\ pc[t] = "user_function"
                     /\ pc' = [pc EXCEPT ![t] = "idle"]
                     /\ last'.key = key[t]
                     /\ key'[t] = None]_vars

\* the user function has just raised in a call for a second key, after a miss and a hit
\* on a first key that is still stored
C19_Witness ==
    /\ last.op = "exception"
    /\ misses = 2
    /\ hits = 1
    /\ current_size = 1
    /\ last.key \notin DOMAIN cache

\* C20: in FIFO, LRU and LFU, in every state outside the "with lock" blocks, the keys of
\* the map are the keys of the data nodes reachable from the root, no two reachable data
\* nodes hold the same key, the map entry of a key is the node that holds it, and every
\* circular list (the list of the root and, in LFU, the list under each frequency node)
\* comes back to its root by next, with prev the inverse of next.
C20_MapAndListAgree ==
    bounded =>
        /\ {heap[n].key : n \in data_nodes} = DOMAIN cache
        /\ \A n, m \in data_nodes: heap[n].key = heap[m].key => n = m
        /\ \A k \in DOMAIN cache: cache[k] \in data_nodes /\ heap[cache[k]].key = k
        /\ \A r \in roots:
               /\ r \in DOMAIN heap
               /\ Len(ring(r)) < Cardinality(DOMAIN heap)
               /\ \A n \in {r} \cup {ring(r)[i] : i \in 1..Len(ring(r))}:
                      /\ heap[n].next \in DOMAIN heap /\ heap[n].prev \in DOMAIN heap
                      /\ heap[heap[n].next].prev = n
                      /\ heap[heap[n].prev].next = n

\* a full LRU cache of two keys, after a hit that relinked the node of its key and after
\* calls enough to have evicted a key
C20_Witness ==
    /\ algorithm = LRU
    /\ bounded
    /\ current_size = 2
    /\ Len(ring(root)) = 2
    /\ last.op = "hit"
    /\ exec_times >= 3

\* C21: in LFU, in every state outside the "with lock" blocks, the frequencies of the
\* frequency nodes met by following next from the root are at least 1 and strictly
\* increasing, and the cache list of every such frequency node holds a data node at least.
C21_FrequenciesIncreaseAndNoneIsEmpty ==
    toolkit = "lfu_cache" =>
        \A i \in 1..Len(ring(root)):
            /\ heap[ring(root)[i]].frequency >= 1
            /\ i < Len(ring(root)) =>
                   heap[ring(root)[i]].frequency < heap[ring(root)[i + 1]].frequency
            /\ heap[ring(root)[i]].cache_head \in DOMAIN heap
            /\ Len(ring(heap[ring(root)[i]].cache_head)) >= 1

\* two frequency nodes, of the frequencies 2 and 3: the node of the frequency 1 was
\* destroyed when the access of its last key emptied it
C21_Witness ==
    /\ toolkit = "lfu_cache"
    /\ Len(ring(root)) = 2
    /\ heap[ring(root)[1]].frequency = 2
    /\ heap[ring(root)[2]].frequency = 3

\* C22: in LFU, every data node in the cache list of a frequency node has that frequency
\* node as its parent, and the frequency of the parent is the access count of the key: 1
\* when the key has just been inserted, one more after every call of the wrapper that
\* finds the key in the map, and unchanged by any other step that keeps the key.
C22_Step ==
    toolkit = "lfu_cache" =>
        \A k \in DOMAIN cache':
            IF k \notin DOMAIN cache
            THEN frequency_next(k) = 1
            ELSE frequency_next(k)
                     = frequency(k) + (IF CallStarts /\ last'.key = k THEN 1 ELSE 0)

C22_ParentFrequencyIsAccessCount ==
    /\ [][C22_Step]_vars
    /\ [](toolkit = "lfu_cache" =>
              \A i \in 1..Len(ring(root)):
                  \A j \in 1..Len(ring(heap[ring(root)[i]].cache_head)):
                      heap[ring(heap[ring(root)[i]].cache_head)[j]].parent = ring(root)[i])

\* the third access of a key has just moved it under the frequency 3, next to a key that
\* stays under the frequency 1
C22_Witness ==
    /\ toolkit = "lfu_cache"
    /\ last.op = "hit"
    /\ current_size = 2
    /\ frequency(last.key) = 3
    /\ \E k \in DOMAIN cache: frequency(k) = 1

C24_VisitsMostRecentFirst ==
    (last.op = "cache_for_each" /\ algorithm \in {FIFO, LRU}) =>
        /\ Len(last.ret) = current_size
        /\ {keys_of(last.ret)[i] : i \in 1..Len(last.ret)} = DOMAIN cache
        /\ keys_of(last.ret) = reversed(IF algorithm = FIFO THEN ins_order ELSE hit_order)

\* C25, as stated: cache_for_each of LFU visits every key of the map once, a key of a
\* higher frequency before a key of a lower one, and of two keys of the same frequency the
\* one inserted into the cache later first.
C25_VisitsLatestInsertedFirst ==
    (last.op = "cache_for_each" /\ algorithm = LFU) =>
        /\ Len(last.ret) = current_size
        /\ {keys_of(last.ret)[i] : i \in 1..Len(last.ret)} = DOMAIN cache
        /\ \A i, j \in 1..Len(last.ret):
               i < j =>
                   \/ frequency(keys_of(last.ret)[i]) > frequency(keys_of(last.ret)[j])
                   \/ /\ frequency(keys_of(last.ret)[i]) = frequency(keys_of(last.ret)[j])
                      /\ Present(ins_order, {keys_of(last.ret)[i], keys_of(last.ret)[j]})
                             = <<keys_of(last.ret)[j], keys_of(last.ret)[i]>>

\* C25, amended: cache_for_each of LFU visits every key of the map once, a key of a higher
\* frequency before a key of a lower one, and of two keys of the same frequency the one
\* that came under that frequency later first: the one whose insertion or latest lookup
\* that found it is the later.
C25_VisitsLatestPlacedFirst ==
    (last.op = "cache_for_each" /\ algorithm = LFU) =>
        /\ Len(last.ret) = current_size
        /\ {keys_of(last.ret)[i] : i \in 1..Len(last.ret)} = DOMAIN cache
        /\ \A i, j \in 1..Len(last.ret):
               i < j =>
                   \/ frequency(keys_of(last.ret)[i]) > frequency(keys_of(last.ret)[j])
                   \/ /\ frequency(keys_of(last.ret)[i]) = frequency(keys_of(last.ret)[j])
                      /\ Present(touch_order, {keys_of(last.ret)[i], keys_of(last.ret)[j]})
                             = <<keys_of(last.ret)[j], keys_of(last.ret)[i]>>

\* a traversal of two keys of the frequency 2, the key inserted first visited first
C25_Witness ==
    /\ algorithm = LFU
    /\ last.op = "cache_for_each"
    /\ Len(last.ret) = 2
    /\ \A k \in DOMAIN cache: frequency(k) = 2
    /\ keys_of(last.ret) = ins_order

\* C26: cache_contains_argument(args, alive_only) returns True exactly when the key made
\* from args is in the map and alive_only is False or the value of the key is not expired;
\* with alive_only True, the default, it returns False for an expired entry.
C26_ContainsArgument ==
    last.op = "cache_contains_argument" =>
        (last.ret <=>
            /\ last.key[1] \in DOMAIN cache
            /\ ~last.key[2] \/ is_cache_value_valid(stored(last.key[1]), now))

\* cache_contains_argument(args) has just returned False for a key whose entry has expired
C26_Witness ==
    /\ last.op = "cache_contains_argument"
    /\ last.key[2]
    /\ last.key[1] \in DOMAIN cache
    /\ ~last.ret

\* C27: cache_contains_result(v, alive_only) returns True exactly when the map holds an
\* entry whose result is v and which, when alive_only is True, is not expired.
C27_ContainsResult ==
    last.op = "cache_contains_result" =>
        (last.ret <=>
            \E k \in DOMAIN cache:
                /\ retrieve_result_from_cache_value(stored(k)) = last.key[1]
                /\ ~last.key[2] \/ is_cache_value_valid(stored(k), now))

C28_Step ==
    last'.op = "cache_items" =>
        /\ \A i \in 1..current_size:
               is_cache_value_valid(stored(traversed_keys(Engine)[i]), last'.key[i])
                   <=> \E j \in 1..Len(last'.ret): keys_of(last'.ret)[j] = traversed_keys(Engine)[i]
        /\ \A j \in 1..Len(last'.ret):
               /\ keys_of(last'.ret)[j] \in DOMAIN cache
               /\ last'.ret[j] = <<key_argument_map[keys_of(last'.ret)[j]],
                                   retrieve_result_from_cache_value(stored(keys_of(last'.ret)[j]))>>
        /\ \A i, j \in 1..Len(last'.ret):
               i < j =>
                   Present(traversed_keys(Engine), {keys_of(last'.ret)[i], keys_of(last'.ret)[j]})
                       = <<keys_of(last'.ret)[i], keys_of(last'.ret)[j]>>
        /\ cache' = cache /\ heap' = heap

\* C28: in LRU and LFU, an iteration over cache_items() yields, in the order of the
\* traversal and once each, the pair of the arguments and the result of exactly the
\* entries of the map that are not expired when the iteration reaches them; it yields no
\* expired entry and leaves the cache as it is. cache_arguments() and cache_results()
\* yield the components of these pairs.
C28_ItemsYieldTheAliveEntries == [][C28_Step]_vars

\* an iteration over a cache of two entries has yielded one and skipped the other, which
\* had expired
C28_Witness ==
    /\ last.op = "cache_items"
    /\ current_size = 2
    /\ Len(last.ret) = 1

\* C29: in the bounded engines, in every state outside the "with lock" blocks,
\* cache_is_full() is true exactly when current_size is max_size and cache_is_empty() is
\* true exactly when current_size is 0.
C29_FullAndEmptyFollowTheSize ==
    bounded =>
        /\ cache_is_full <=> current_size = max_size
        /\ cache_is_empty <=> current_size = 0

\* cache_remove_if has just taken a key out of a cache that two insertions had filled
C29_Witness ==
    /\ bounded
    /\ max_size = 2
    /\ last.op = "remove_if"
    /\ last.ret = 1
    /\ current_size = 1
    /\ ~cache_is_full
    /\ hits + misses = calls
    /\ misses = 2

C30_Step ==
    toolkit = "statistic_cache" =>
        /\ hits' = 0
        /\ current_size' = 0
        /\ IF last'.op = "clear" THEN misses' = 0
           ELSE IF CallStarts
           THEN /\ misses' = misses + 1
                /\ \E t \in Threads: pc[t] = "idle" /\ pc'[t] = "user_function"
           ELSE misses' = misses

\* C30: the wrapper of max_size 0 stores nothing and counts every call as a miss, never as
\* a hit: a call adds one to misses and goes on to execute the user function, cache_clear
\* sets misses to 0 and no other step changes it, so that misses is the number of calls
\* since the last cache_clear; every call made has executed the user function or is
\* executing it.
C30_EveryCallIsAMiss ==
    /\ [][C30_Step]_vars
    /\ [](toolkit = "statistic_cache" =>
              /\ hits = 0
              /\ current_size = 0
              /\ exec_times + computing = calls)

\* every call of the budget has returned, the last ones counted after a cache_clear
C30_Witness ==
    /\ toolkit = "statistic_cache"
    /\ quiescent
    /\ calls = call_budget
    /\ exec_times = calls
    /\ misses = 2


-----------------------------------------------------------------------------
\* C31 (as amended): on a wrapper of capacity zero, after any sequence of calls,
\* cache_is_empty and cache_is_full return true (the size 0 is the capacity 0),
\* cache_contains_argument, cache_contains_result and cache_remove_if return false, and
\* cache_for_each, cache_arguments, cache_results and cache_items visit nothing
C31_StatisticReads ==
    [][last'.op \in StatisticReads =>
           /\ last'.op = "cache_is_empty" => last'.ret = (current_size = 0)
           /\ last'.op = "cache_is_full" => last'.ret = (current_size = max_size)
           /\ last'.op \in {"cache_contains_argument", "cache_contains_result",
                             "cache_remove_if"} => last'.ret = FALSE
           /\ last'.op \in {"cache_for_each", "cache_arguments", "cache_results",
                             "cache_items"} => last'.ret = <<>>
           /\ UNCHANGED <<engine_vars, exec_times>>]_vars

\* C31 as stated: cache_is_full returns false as well
C31_StatisticReadsAllFalse ==
    [][/\ last'.op \in {"cache_is_full", "cache_contains_argument",
                          "cache_contains_result", "cache_remove_if"} => last'.ret = FALSE
       /\ last'.op \in {"cache_for_each", "cache_arguments", "cache_results",
                          "cache_items"} => last'.ret = <<>>]_vars

C31_Witness ==
    /\ toolkit = "statistic_cache"
    /\ last.op = "cache_is_full"
    /\ last.ret = TRUE
    /\ misses = 2
    /\ exec_times = 2


-----------------------------------------------------------------------------
\* C32: a call with the positional arguments and the keyword pairs of an earlier call,
\* the pairs given in any order, makes the key of that call: while the entry of the
\* earlier call is in the cache the call is a hit on that entry and the size stays as it
\* is, and no two entries of the cache hold the same arguments in two orders
pairs(kwargs) == {kwargs[i]: i \in DOMAIN kwargs}

C32_Step ==
    \A kwargs \in KwargsCalls:
        WrapperLookup(MainThread, <<1>>, kwargs) =>
            \A earlier \in KwargsCalls:
                /\ pairs(earlier) = pairs(kwargs)
                /\ make_key(<<1>>, earlier) \in DOMAIN cache
                => /\ last'.op = "hit"
                   /\ last'.key = make_key(<<1>>, earlier)
                   /\ current_size' = current_size
                   /\ exec_times' = exec_times

C32_KwargsOrderIndependent ==
    /\ [][C32_Step]_vars
    /\ [](\A kwargs, earlier \in KwargsCalls:
              /\ pairs(earlier) = pairs(kwargs)
              /\ make_key(<<1>>, earlier) \in DOMAIN cache
              /\ make_key(<<1>>, kwargs) \in DOMAIN cache
              => make_key(<<1>>, earlier) = make_key(<<1>>, kwargs))

\* the third call of the test: two hits on the one entry of two keyword arguments
C32_Witness ==
    /\ last.op = "hit"
    /\ Len(last.key) = 6
    /\ hits = 2
    /\ misses = 1
    /\ exec_times = 1
    /\ current_size = 1


-----------------------------------------------------------------------------
\* C33: in the LRU engine a lookup that finds the entry valid moves it to the
\* most-recently-used position, the one a traversal visits first, and leaves the order of
\* the other entries as it is; a lookup that is a miss, the one that finds the entry
\* expired included, leaves the order of the list as it is.
C33_RelinksOnlyOnHit ==
    [][algorithm = LRU =>
           /\ last'.op = "hit" =>
                  traversed_keys(Engine)' =
                      <<last'.key>> \o SelectSeq(traversed_keys(Engine),
                                                 LAMBDA k: k # last'.key)
           /\ last'.op = "miss" => traversed_keys(Engine)' = traversed_keys(Engine)]_vars


-----------------------------------------------------------------------------
\* C34: in LFU a hit on the key k of the frequency f leaves the frequency list as
\* follows: k is taken out of its cache list; if a frequency node of f + 1 exists, k is the
\* first key of its cache list, else a frequency node of f + 1 that holds k alone stands
\* directly after the node of f; the node of f is gone if k was its only key; every other
\* key is under the frequency it was under, in the order the keys of that frequency had.
without_key(bs, k) ==
    [i \in DOMAIN bs |-> <<bs[i][1], SelectSeq(bs[i][2], LAMBDA x: x # k)>>]

promoted(bs, k, f) ==
    IF \E i \in DOMAIN bs: bs[i][1] = f + 1
    THEN [i \in DOMAIN bs |-> IF bs[i][1] = f + 1 THEN <<f + 1, <<k>> \o bs[i][2]>>
                                                  ELSE bs[i]]
    ELSE SubSeq(bs, 1, CHOOSE i \in DOMAIN bs: bs[i][1] = f)
             \o <<<<f + 1, <<k>>>>>>
             \o SubSeq(bs, (CHOOSE i \in DOMAIN bs: bs[i][1] = f) + 1, Len(bs))

not_empty(bs) == SelectSeq(bs, LAMBDA b: b[2] # <<>>)

C34_HitPromotes ==
    [][(toolkit = "lfu_cache" /\ last'.op = "hit") =>
           /\ frequency_next(last'.key) = frequency(last'.key) + 1
           /\ buckets' = not_empty(promoted(without_key(buckets, last'.key), last'.key,
                                            frequency(last'.key)))]_vars

\* a hit has just put its key in front of the key that was under the frequency 2 already,
\* and the frequency node of 1 it left empty is gone
C34_Witness ==
    /\ toolkit = "lfu_cache"
    /\ last.op = "hit"
    /\ Len(buckets) = 1
    /\ buckets[1][1] = 2
    /\ Len(buckets[1][2]) = 2
    /\ buckets[1][2][1] = last.key


-----------------------------------------------------------------------------
\* C35: in every engine that stores, the result stored for a key of the map is the value
\* of the user function for the arguments the key was made from, the node of the key holds
\* that key, and a hit returns the value of the function for the arguments of the call.
C35_StoredResultIsOfItsKey ==
    /\ [](\A k \in DOMAIN cache:
              /\ \E x \in ArgValues:
                     /\ k = make_key(<<x>>, NoKwargs)
                     /\ retrieve_result_from_cache_value(stored(k)) = user_function(<<x>>)
              /\ bounded => heap[cache[k]].key = k)
    /\ [][last'.op = "hit" =>
              \E x \in ArgValues:
                  /\ last'.key = make_key(<<x>>, NoKwargs)
                  /\ last'.ret = user_function(<<x>>)]_vars

\* the insertion of a key into a full FIFO cache has just recycled the slot of the root
\* for a key whose result differs from the result of the key evicted
C35_Witness ==
    /\ toolkit = "fifo_cache"
    /\ max_size = 2
    /\ last.op = "evict"
    /\ last.key # last.evicted
    /\ retrieve_result_from_cache_value(stored(last.key)) = user_function(last.key)


-----------------------------------------------------------------------------
\* C36: cache_info, cache_is_empty, cache_is_full, cache_contains_argument,
\* cache_contains_result and cache_for_each (its consumer leaving the cache alone) leave
\* hits and misses, the entries of the map with their values, the order of the list of
\* FIFO and LRU and the frequency list of LFU as they are (no node, no link between nodes
\* and no root changes), and cache_info returns the counters and the size as they are.
ReadOnly ==
    {"cache_info", "cache_is_empty", "cache_is_full", "cache_contains_argument",
     "cache_contains_result", "cache_for_each"}

C36_ReadsChangeNothing ==
    [][last'.op \in ReadOnly =>
           /\ hits' = hits
           /\ misses' = misses
           /\ cache' = cache
           /\ key_argument_map' = key_argument_map
           /\ heap' = heap
           /\ root' = root
           /\ full' = full
           /\ last'.op = "cache_info" => last'.ret = <<hits', misses', current_size'>>]_vars

\* cache_for_each has just visited the two entries of an LFU cache that has counted a hit
C36_Witness ==
    /\ toolkit = "lfu_cache"
    /\ last.op = "cache_for_each"
    /\ Len(last.ret) = 2
    /\ hits = 1
    /\ Len(buckets) = 2


-----------------------------------------------------------------------------
\* C37: in every reachable state of an engine that stores (plain, FIFO, LRU, LFU), the
\* number of entries of the map is at most misses.
C37_SizeAtMostMisses == toolkit # "statistic_cache" => current_size <= misses


-----------------------------------------------------------------------------
\* C40: in the plain, LRU and LFU engines, in every state a traversal can start in (it
\* needs the lock only), every key of the map of results is a key of the map of arguments.
C40_EveryKeyHasArguments ==
    toolkit \in {"plain_cache", "lru_cache", "lfu_cache"} =>
        DOMAIN cache \subseteq DOMAIN key_argument_map


-----------------------------------------------------------------------------
\* C38: while a thread is between two items of cache_arguments(), cache_results() or
\* cache_items() (the generator is suspended at a yield), the lock of the wrapper is free
\* for every other thread, so that a wrapper call of another thread can go on.
C38_SuspendedGeneratorLeavesLockFree ==
    \A t \in Threads:
        pc[t] \in Generators => \A u \in Threads \ {t}: lock_available(lock, u)

-----------------------------------------------------------------------------
\* C39: cache_for_each of LRU and of LFU calls the consumer once for every entry that was
\* in the cache when it started, and returns, also when the consumer calls the wrapper
\* with keys that are in the cache (hits).
C39_ForEachOncePerEntry ==
    /\ \A t \in Threads:
           traversal[t] # None =>
               \A i, j \in 1..Len(traversal[t].entries):
                   traversal[t].entries[i][1] = traversal[t].entries[j][1] => i = j
    /\ last.op # "cache_for_each_exception"
    /\ last.op = "cache_for_each_return" =>
           /\ Len(last.ret) = current_size
           /\ {keys_of(last.ret)[i]: i \in 1..Len(last.ret)} = DOMAIN cache

====
